---- MODULE Spec2Model ----
(***************************************************************************)
(* QuizFlow AI: the quiz-generation pipeline of apps/api.                  *)
(*                                                                         *)
(*   quiz.service.ts    generateQuiz, updateQuizQuestions,                 *)
(*                      generateSingleQuestion, Stripe webhook handlers    *)
(*   openai.service.ts  generateQuizQuestions, generateSingleQuestion      *)
(*   constants.ts       PLAN_LIMITS_BY_NAME                                *)
(*   quiz.routes.ts / quiz.controller.ts   request validation              *)
(*                                                                         *)
(* Text is a sequence of one-character strings, so that trim() and         *)
(* toLowerCase() are computed and not assumed.                             *)
(***************************************************************************)
EXTENDS Integers, Sequences, FiniteSets, TLC

\* ------------------------------------------------------------------ bounds
\* longest bulk LLM response with free (possibly malformed) content
MaxBulk == 2
\* the bulk LLM response is short of the requested count by at most this
MaxShort == 2

\* ------------------------------------------------------------------ text
\* an absent JSON field (undefined / null)
Null == <<"NULL">>

\* JavaScript falsiness of an optional string: undefined, null or ""
Falsy(s) == s = Null \/ s = <<>>

IsSpace(c) == c = " "

RECURSIVE TrimStart(_)
TrimStart(s) == IF s # <<>> /\ IsSpace(Head(s)) THEN TrimStart(Tail(s)) ELSE s

RECURSIVE TrimEnd(_)
TrimEnd(s) == IF s # <<>> /\ IsSpace(s[Len(s)]) THEN TrimEnd(SubSeq(s, 1, Len(s) - 1)) ELSE s

\* String.prototype.trim
Trim(s) == TrimEnd(TrimStart(s))

LowerChar(c) == CASE c = "X" -> "x" [] c = "Y" -> "y" [] c = "A" -> "a" [] c = "Q" -> "q" [] OTHER -> c

\* String.prototype.toLowerCase
ToLowerCase(s) == [i \in DOMAIN s |-> LowerChar(s[i])]

\* Array.prototype.includes on an array of strings
Includes(arr, s) == \E i \in DOMAIN arr : arr[i] = s

\* ------------------------------------------------------------------ questions
\* QuizQuestion (packages/types); the optional explanation carries no check
\* anywhere in the pipeline and is left out
QuizQuestion(q, o, c) == [question |-> q, options |-> o, correctAnswer |-> c]

NullOptions == <<Null>>

Four == << <<"a">>, <<"b">>, <<"c">>, <<"d">> >>

FourPadded == << <<"a", " ">>, <<"b">>, <<"c">>, <<"d">> >>

Three == << <<"a">>, <<"b">>, <<"c">> >>

\* entries the LLM may put in a response: a well-formed one; a re-spelling of
\* the same question with padded options and an answer that is no option;
\* one with three options; one without an answer
LLMEntries ==
  { QuizQuestion(<<"x">>, Four, <<"a">>),
    QuizQuestion(<<"X", " ">>, FourPadded, <<"z", " ">>),
    QuizQuestion(<<"y">>, Three, <<"a">>),
    QuizQuestion(<<"y">>, Four, Null) }

\* the i-th question of a well-behaved response
Numbered(i) == QuizQuestion([j \in 1..i |-> "q"], Four, <<"a">>)

\* a well-behaved response of m distinct questions
Full(m) == [i \in 1..m |-> Numbered(i)]

RECURSIVE SeqsUpTo(_, _)
SeqsUpTo(S, n) ==
  IF n = 0 THEN { <<>> }
  ELSE LET shorter == SeqsUpTo(S, n - 1)
       IN  shorter \cup { Append(s, e) : s \in { t \in shorter : Len(t) = n - 1 }, e \in S }

Min(a, b) == IF a < b THEN a ELSE b

Max(a, b) == IF a > b THEN a ELSE b

\* ------------------------------------------------------------------ errors
NoErr == [class |-> "none", statusCode |-> 0, message |-> "", achieved |-> 0, requested |-> 0]

\* new AppError(statusCode, message)
AppError(code, msg) == [class |-> "AppError", statusCode |-> code, message |-> msg, achieved |-> 0, requested |-> 0]

\* a runtime exception that is no AppError (TypeError, a Prisma error, ...)
RuntimeError(cls, msg) == [class |-> cls, statusCode |-> 0, message |-> msg, achieved |-> 0, requested |-> 0]

\* `Could only generate ${finalQuestions.length} out of ${questionCount} questions...`
ShortfallError(got, wanted) ==
  [class |-> "AppError", statusCode |-> 500, message |-> "Could only generate", achieved |-> got, requested |-> wanted]

\* ------------------------------------------------------------------ plan table
FreeQuestionsPerQuiz == 5

ProQuestionsPerQuiz == 30

\* the hard ceiling of generateQuizQuestions
MaxQuestionCount == 30

\* what indexing an object with a key it does not have yields
Undefined == [defined |-> FALSE, questionsPerQuiz |-> 0, hasWatermark |-> FALSE]

\* PLAN_LIMITS_BY_NAME[plan]
PLAN_LIMITS_BY_NAME(plan) ==
  CASE plan = "FREE" -> [defined |-> TRUE, questionsPerQuiz |-> FreeQuestionsPerQuiz, hasWatermark |-> TRUE]
    [] plan = "PRO"  -> [defined |-> TRUE, questionsPerQuiz |-> ProQuestionsPerQuiz, hasWatermark |-> FALSE]
    [] OTHER -> Undefined

\* an optional number of a request body
None == [given |-> FALSE, n |-> 0]

Some(n) == [given |-> TRUE, n |-> n]

\* requestedCount = questionCount || planLimits.questionsPerQuiz
RequestedCount(questionCount, planLimits) ==
  IF questionCount.given /\ questionCount.n # 0 THEN questionCount.n ELSE planLimits.questionsPerQuiz

FinalCountUnclamped(questionCount, planLimits) == RequestedCount(questionCount, planLimits)

\* finalCount = Math.min(requestedCount, planLimits.questionsPerQuiz)
FinalCount(questionCount, planLimits) ==
  Min(RequestedCount(questionCount, planLimits), planLimits.questionsPerQuiz)

\* ------------------------------------------------------------------ openai.service
CountCheckNoCeiling(questionCount) ==
  IF questionCount < 1 THEN AppError(400, "Question count must be at least 1") ELSE NoErr

\* the guard at the head of generateQuizQuestions
CountCheck(questionCount) ==
  IF questionCount < 1 THEN AppError(400, "Question count must be at least 1")
  ELSE IF questionCount > MaxQuestionCount THEN AppError(400, "Question count cannot exceed 30")
  ELSE NoErr

\* a validation callback that lets any number of options pass
EntryErrorAnyOptionCount(q) ==
  IF Falsy(q.question) \/ q.options = NullOptions \/ Falsy(q.correctAnswer)
  THEN AppError(500, "Invalid question format at index")
  ELSE NoErr

\* the two throws of the per-entry validation callback
EntryError(q) ==
  IF Falsy(q.question) \/ q.options = NullOptions \/ Falsy(q.correctAnswer)
  THEN AppError(500, "Invalid question format at index")
  ELSE IF Len(q.options) # 4 THEN AppError(500, "Question must have exactly 4 options")
  ELSE NoErr

\* the object the validation callback returns: every field trimmed
TrimEntry(q) ==
  QuizQuestion(Trim(q.question), [k \in DOMAIN q.options |-> Trim(q.options[k])], Trim(q.correctAnswer))

\* parsedResponse.questions.map(...): the first bad entry throws, else the
\* trimmed list
ValidateBulk(entries) ==
  LET bad == { k \in DOMAIN entries : EntryError(entries[k]) # NoErr }
  IN  IF bad # {}
      THEN [err |-> EntryError(entries[CHOOSE k \in bad : \A m \in bad : k <= m]), questions |-> <<>>]
      ELSE [err |-> NoErr, questions |-> [k \in DOMAIN entries |-> TrimEntry(entries[k])]]

\* what one chat.completions.create call can come to
LLMFailures ==
  { [kind |-> "http", status |-> 429], [kind |-> "http", status |-> 401],
    [kind |-> "http", status |-> 500], [kind |-> "empty", status |-> 0],
    [kind |-> "badjson", status |-> 0] }

Content(kind, payload) == [kind |-> kind, status |-> 200, payload |-> payload]

\* bulk responses for a request of n questions: any list of at most MaxBulk
\* entries and the well-behaved lists, none short by more than MaxShort; a
\* JSON object without a questions array
BulkResponses(n) ==
  { Content("questions", s) : s \in { t \in SeqsUpTo(LLMEntries, MaxBulk) : Len(t) >= n - MaxShort } }
    \cup { Content("questions", Full(m)) : m \in Max(0, n - MaxShort)..(n + 1) }
    \cup { Content("noarray", <<>>) }

\* the catch block of generateQuizQuestions for an error thrown by the
\* OpenAI client or by JSON.parse
ClassifyError(failure) ==
  IF failure.kind = "http" /\ failure.status = 429
  THEN AppError(429, "OpenAI rate limit reached. Please try again later.")
  ELSE IF failure.kind = "http" /\ failure.status = 401
  THEN AppError(500, "OpenAI API authentication failed")
  ELSE AppError(500, "Failed to generate quiz questions: ")

\* the bulk call up to the validated list: [err, questions]
BulkResult(outcome) ==
  CASE outcome.kind = "empty" -> [err |-> AppError(500, "No response from OpenAI"), questions |-> <<>>]
    [] outcome.kind \in {"http", "badjson"} -> [err |-> ClassifyError(outcome), questions |-> <<>>]
    [] outcome.kind = "noarray" -> [err |-> AppError(500, "Invalid response format from OpenAI"), questions |-> <<>>]
    [] OTHER -> ValidateBulk(outcome.payload)

\* validatedQuestions.map(q => q.question)
QuestionTexts(questions) == [k \in DOMAIN questions |-> questions[k].question]

AvoidListBulkOnly(validatedQuestions, additionalQuestions) == QuestionTexts(validatedQuestions)

\* [...existingQuestions, ...additionalQuestions.map(q => q.question)]
AvoidList(validatedQuestions, additionalQuestions) ==
  QuestionTexts(validatedQuestions) \o QuestionTexts(additionalQuestions)

\* the structure check of generateSingleQuestion
SingleValid(q) ==
  ~ ( Falsy(q.question) \/ q.options = NullOptions \/ Len(q.options) # 4 \/ Falsy(q.correctAnswer) )

SingleResponses == { Content("question", e) : e \in LLMEntries }

\* generateSingleQuestion from the call to its return or throw: the parsed
\* object as it is, or the one error of its catch block
SingleResult(outcome) ==
  IF outcome.kind = "question" /\ SingleValid(outcome.payload)
  THEN [err |-> NoErr, question |-> outcome.payload]
  ELSE [err |-> AppError(500, "Failed to generate question"), question |-> QuizQuestion(Null, NullOptions, Null)]

NoTrim(finalQuestions, questionCount) == finalQuestions

\* finalQuestions.slice(0, questionCount) when there are too many
TrimToCount(finalQuestions, questionCount) ==
  IF Len(finalQuestions) > questionCount THEN SubSeq(finalQuestions, 1, questionCount) ELSE finalQuestions

\* ------------------------------------------------------------------ state
VARIABLES
  users,        \* prisma.user: id -> record
  fileUploads,  \* prisma.fileUpload: id -> record
  quizzes,      \* prisma.quiz: id -> record
  disk,         \* package files: path -> what the builder wrote
  nextPath,     \* the next fresh package path
  usage,        \* prisma.usageRecord, one record per recordUsage
  refreshTokens,\* prisma.refreshToken: the stored token strings
  now,          \* the clock, in the seconds jwt.sign stamps tokens with
  events,       \* what has happened so far: Stripe events handled, logouts done
  req           \* the requests in flight: slot -> locals and position

vars == <<users, fileUploads, quizzes, disk, nextPath, usage, refreshTokens, now, events, req>>

store == <<users, fileUploads, quizzes, disk, nextPath, usage, refreshTokens, now, events>>

\* a JWT: what it was signed as, for whom and when; a string that is no JWT
\* has kind "garbage", one signed with another secret has kind "forged"
Token(kind, sub, iat) == [kind |-> kind, sub |-> sub, iat |-> iat]

NoToken == Token("none", "", 0)

\* a verified Stripe event: its type and what its data object carries
StripeEvent(type, userId, customer, subscription, status) ==
  [type |-> type, userId |-> userId, customer |-> customer, subscription |-> subscription, status |-> status]

NoEvent == StripeEvent("", "", "", "", "")

\* a text as far as trim() and length see it: leading white space, the
\* characters from the first to the last that is not white space, trailing
\* white space
Text(lead, body, trail) == [lead |-> lead, body |-> body, trail |-> trail]

NoText == Text(0, 0, 0)

\* text.length
Length(t) == t.lead + t.body + t.trail

\* text.trim().length
TrimLength(t) == t.body

\* an idle request slot
Blank ==
  [ op |-> "idle", pc |-> "idle", userId |-> "", targetId |-> "",
    questionCount |-> None, body |-> <<>>, existing |-> <<>>, reqTitle |-> Null,
    reqFilename |-> Null, plan |-> "", count |-> 0,
    validated |-> <<>>, additional |-> <<>>, i |-> 0, shortfall |-> 0,
    bulkCalls |-> 0, oneCalls |-> 0, lastAvoid |-> <<>>, lastFailure |-> 200,
    questions |-> <<>>, title |-> <<>>, path |-> 0, oldPath |-> 0, removed |-> FALSE,
    email |-> "", password |-> "", scheme |-> "", token |-> NoToken, ran |-> FALSE, status |-> 0,
    event |-> NoEvent, mimetype |-> "", text |-> NoText,
    accessToken |-> NoToken, refreshToken |-> NoToken, retry |-> FALSE, response |-> <<>>,
    ok |-> FALSE, err |-> NoErr ]

Procs == DOMAIN req

\* the request of slot p ends with a thrown error
Throw(r, e) == [r EXCEPT !.pc = "done", !.ok = FALSE, !.err = e]

\* generateQuizQuestions returns to its caller: generateQuiz goes on to the
\* package builder, a direct caller has the list
ReturnQuestions(r, qs) ==
  IF r.op = "generateQuiz"
  THEN [r EXCEPT !.pc = "g_build", !.questions = qs, !.validated = <<>>, !.additional = <<>>,
                 !.i = 0, !.shortfall = 0, !.lastAvoid = <<>>, !.lastFailure = 200, !.response = <<>>]
  ELSE [r EXCEPT !.pc = "done", !.ok = TRUE, !.questions = qs]

\* parsedResponse.questions of a response that has a questions array
ParsedQuestions(outcome) == IF outcome.kind = "questions" THEN outcome.payload ELSE <<>>

\* the status of the last LLM call of a request that failed
NoteFailure(r, outcome) ==
  IF outcome \in LLMFailures THEN [r EXCEPT !.lastFailure = outcome.status] ELSE r

\* generateQuizQuestions, entry: the count guard
GQStart(p) ==
  /\ req[p].pc = "q_start"
  /\ LET r == req[p]
         e == CountCheck(r.count)
     IN  req' = [req EXCEPT ![p] = IF e # NoErr THEN Throw(r, e) ELSE [r EXCEPT !.pc = "q_bulk"]]
  /\ UNCHANGED store

\* the code after the backfill loop: the final check and the trim
FinishQuestions(r, finalQuestions) ==
  IF Len(finalQuestions) < r.count
  THEN Throw(r, ShortfallError(Len(finalQuestions), r.count))
  ELSE ReturnQuestions(r, TrimToCount(finalQuestions, r.count))

\* generateQuizQuestions, the bulk chat completion and the validation of its
\* response
GQBulk(p) ==
  /\ req[p].pc = "q_bulk"
  /\ \E outcome \in LLMFailures \cup BulkResponses(req[p].count) :
       LET r   == NoteFailure([req[p] EXCEPT !.bulkCalls = @ + 1, !.response = ParsedQuestions(outcome)], outcome)
           res == BulkResult(outcome)
       IN  req' = [req EXCEPT ![p] =
             IF res.err # NoErr THEN Throw(r, res.err)
             ELSE IF Len(res.questions) < r.count
             THEN [r EXCEPT !.pc = "q_backfill", !.validated = res.questions,
                            !.shortfall = r.count - Len(res.questions), !.i = 0]
             ELSE ReturnQuestions([r EXCEPT !.validated = res.questions],
                                  TrimToCount(res.questions, r.count))]
  /\ UNCHANGED store

\* a backfill loop that asks again for the same missing question after a
\* failed call
GQBackfillRetrying(p) ==
  /\ req[p].pc = "q_backfill"
  /\ req[p].i < req[p].shortfall
  /\ \E outcome \in LLMFailures \cup SingleResponses :
       LET r0    == req[p]
           avoid == AvoidList(r0.validated, r0.additional)
           res   == SingleResult(outcome)
           r     == NoteFailure([r0 EXCEPT !.oneCalls = @ + 1, !.lastAvoid = avoid,
                                   !.i = IF res.err = NoErr THEN @ + 1 ELSE @,
                                   !.additional = IF res.err = NoErr THEN Append(@, res.question) ELSE @],
                                outcome)
       IN  req' = [req EXCEPT ![p] =
             IF r.i < r.shortfall THEN r
             ELSE FinishQuestions(r, r.validated \o r.additional)]
  /\ UNCHANGED store

\* generateQuizQuestions, one turn of the backfill loop: a
\* generateSingleQuestion call whose failure is logged and skipped
GQBackfill(p) ==
  /\ req[p].pc = "q_backfill"
  /\ req[p].i < req[p].shortfall
  /\ \E outcome \in LLMFailures \cup SingleResponses :
       LET r0    == req[p]
           avoid == AvoidList(r0.validated, r0.additional)
           res   == SingleResult(outcome)
           r     == NoteFailure([r0 EXCEPT !.oneCalls = @ + 1, !.lastAvoid = avoid, !.i = @ + 1,
                                   !.additional = IF res.err = NoErr THEN Append(@, res.question) ELSE @],
                                outcome)
       IN  req' = [req EXCEPT ![p] =
             IF r.i < r.shortfall THEN r
             ELSE FinishQuestions(r, r.validated \o r.additional)]
  /\ UNCHANGED store

\* openai.service generateSingleQuestion for a caller of its own
GSCall(p) ==
  /\ req[p].pc = "s_call"
  /\ \E outcome \in LLMFailures \cup SingleResponses :
       LET r   == NoteFailure([req[p] EXCEPT !.oneCalls = @ + 1, !.lastAvoid = req[p].existing], outcome)
           res == SingleResult(outcome)
       IN  req' = [req EXCEPT ![p] =
             IF res.err # NoErr THEN Throw(r, res.err)
             ELSE [r EXCEPT !.pc = "done", !.ok = TRUE, !.questions = <<res.question>>]]
  /\ UNCHANGED store

\* the caller has its answer; the slot is free again
Return(p) ==
  /\ req[p].pc = "done"
  /\ req' = [req EXCEPT ![p] = Blank]
  /\ UNCHANGED store

\* ------------------------------------------------------------------ direct calls
\* counts a caller of generateQuizQuestions may pass
DirectCounts == {-1, 0, 1, 2, 3, 5, 29, 30, 31}

\* question texts a caller of generateSingleQuestion may pass
ExistingTexts == { <<>>, << <<"x">>, <<"y">> >> }

\* generateQuizQuestions(extractedText, questionCount, title)
CallGenerateQuizQuestions(p) ==
  /\ req[p].pc = "idle"
  /\ \E n \in DirectCounts :
       req' = [req EXCEPT ![p] = [Blank EXCEPT !.op = "generateQuizQuestions", !.pc = "q_start", !.count = n]]
  /\ UNCHANGED store

\* generateSingleQuestion(text, existingQuestions)
CallGenerateSingleQuestion(p) ==
  /\ req[p].pc = "idle"
  /\ \E existing \in ExistingTexts :
       req' = [req EXCEPT ![p] = [Blank EXCEPT !.op = "generateSingleQuestion", !.pc = "s_call", !.existing = existing]]
  /\ UNCHANGED store

\* ------------------------------------------------------------------ quiz.service
\* the ids prisma.quiz.create hands out in one run
QuizIds == {1}

\* the paths the package builder hands out in one run: one for the quiz, one
\* for its rebuild
PackagePaths == {1, 2}

\* questionCount values of a POST /api/quiz body
RequestCounts == { None } \cup { Some(n) : n \in {0, 2, 30, 31} }

\* title values of a POST /api/quiz body
RequestTitles == { Null }

\* filename values of a PATCH /api/quiz/:id body
RequestFilenames == { Null, <<"A", "/">> }

\* question lists of a PATCH /api/quiz/:id body
RequestQuestions ==
  { <<>>,
    << QuizQuestion(<<"x">>, Four, <<"a">>), QuizQuestion(<<"X", " ">>, Four, <<"b">>) >>,
    << QuizQuestion(<<"y">>, Four, <<"z">>) >> }

\* generateQuizSchema of quiz.routes.ts: questionCount is an optional integer
\* of 1..30
SchemaAccepts(questionCount) == ~ questionCount.given \/ questionCount.n \in 1..30

IsAlnum(c) == c \in {"a", "b", "c", "d", "q", "x", "y", "z", "A", "Q", "X", "Y", "0", "1"}

\* quizTitle.replace(/[^a-z0-9]/gi, '_').toLowerCase()
SafeFilename(title) == ToLowerCase([k \in DOMAIN title |-> IF IsAlnum(title[k]) THEN title[k] ELSE "_"])

\* a || b on optional strings
OrElse(a, b) == IF Falsy(a) THEN b ELSE a

\* POST /api/quiz: validate(generateQuizSchema), then the controller; the
\* schema is a z.object, so a filename in the body is stripped before the
\* controller reads it
StartGenerate(p) ==
  /\ req[p].pc = "idle"
  /\ Len(quizzes) + 1 \in QuizIds
  /\ nextPath + 1 \in PackagePaths
  /\ \E u \in DOMAIN users, f \in DOMAIN fileUploads, qc \in RequestCounts, t \in RequestTitles :
       LET r == [Blank EXCEPT !.op = "generateQuiz", !.userId = u, !.targetId = f,
                              !.questionCount = qc, !.reqTitle = t]
       IN  req' = [req EXCEPT ![p] =
             IF SchemaAccepts(qc) THEN [r EXCEPT !.pc = "g_user"]
             ELSE Throw(r, AppError(400, "Validation failed"))]
  /\ UNCHANGED store

\* generateQuiz: prisma.user.findUnique
GenReadUser(p) ==
  /\ req[p].pc = "g_user"
  /\ LET r == req[p]
     IN  req' = [req EXCEPT ![p] =
           IF r.userId \notin DOMAIN users THEN Throw(r, AppError(404, "User not found"))
           ELSE [r EXCEPT !.pc = "g_file", !.plan = users[r.userId].plan]]
  /\ UNCHANGED store

\* fileService.getFileUploadById and the extractedText check
FileError(fileId, userId) ==
  IF fileId \notin DOMAIN fileUploads \/ fileUploads[fileId].userId # userId
  THEN AppError(404, "File not found")
  ELSE IF ~ fileUploads[fileId].hasText THEN AppError(400, "File has no extracted text")
  ELSE NoErr

\* generateQuiz: the upload is read, the plan limits are looked up and the
\* count is settled; reading questionsPerQuiz of undefined is a TypeError
GenReadFile(p) ==
  /\ req[p].pc = "g_file"
  /\ LET r == req[p]
         e == FileError(r.targetId, r.userId)
         planLimits == PLAN_LIMITS_BY_NAME(r.plan)
     IN  req' = [req EXCEPT ![p] =
           IF e # NoErr THEN Throw(r, e)
           ELSE IF ~ planLimits.defined
           THEN Throw(r, RuntimeError("TypeError", "Cannot read properties of undefined"))
           ELSE [r EXCEPT !.pc = "q_start", !.count = FinalCount(r.questionCount, planLimits),
                          !.title = OrElse(r.reqTitle, fileUploads[r.targetId].originalName)]]
  /\ UNCHANGED store

\* the final shape check of the package builder
ShapeOK(q) == ~ Falsy(q.question) /\ q.options # NullOptions /\ Len(q.options) = 4 /\ ~ Falsy(q.correctAnswer)

\* qtiService.generateQTIPackage: a PackagingError for an empty list or a
\* misshapen question, else the archive is written under a path of its own
PackagingError(request) ==
  IF request.questions = <<>> \/ \E k \in DOMAIN request.questions : ~ ShapeOK(request.questions[k])
  THEN RuntimeError("PackagingError", "cannot build package")
  ELSE NoErr

\* the package builder is called with request; the write may fail. The file
\* is kept with the request it was built from
BuildPackage(p, r, request, nextPc) ==
  /\ \E written \in BOOLEAN :
       LET e == IF written THEN PackagingError(request) ELSE RuntimeError("PackagingError", "write failed")
       IN  IF e # NoErr
           THEN /\ req' = [req EXCEPT ![p] = Throw(r, e)]
                /\ UNCHANGED <<disk, nextPath>>
           ELSE /\ req' = [req EXCEPT ![p] = [r EXCEPT !.pc = nextPc, !.path = nextPath]]
                /\ disk' = [k \in DOMAIN disk \cup {nextPath} |->
                              IF k = nextPath
                              THEN request
                              ELSE disk[k]]
                /\ nextPath' = nextPath + 1

\* the flag the quiz record was stored with
WatermarkOfRecord(r, planLimits) ==
  IF r.op = "updateQuizQuestions" THEN quizzes[r.targetId].hasWatermark ELSE planLimits.hasWatermark

\* hasWatermark: planLimits.hasWatermark
WatermarkOf(r, planLimits) == planLimits.hasWatermark

\* filename || title.replace(/[^a-z0-9]/gi, '_').toLowerCase()
FilenameFor(r) == OrElse(r.reqFilename, SafeFilename(r.title))

\* generateQuiz: the safe filename and the package build
GenBuild(p) ==
  /\ req[p].pc = "g_build"
  /\ LET r == req[p]
         planLimits == PLAN_LIMITS_BY_NAME(r.plan)
     IN  BuildPackage(p, r,
           [by |-> "generateQuiz", questions |-> r.questions, hasWatermark |-> WatermarkOf(r, planLimits),
            filename |-> FilenameFor(r), plan |-> r.plan],
           "g_create")
  /\ UNCHANGED <<refreshTokens, now, events, users, fileUploads, quizzes, usage>>

\* generateQuiz: prisma.quiz.create, which may fail
GenCreate(p) ==
  /\ req[p].pc = "g_create"
  /\ LET r == req[p]
     IN  \E stored \in BOOLEAN :
           IF stored
           THEN /\ quizzes' = Append(quizzes,
                      [userId |-> r.userId, fileUploadId |-> r.targetId, title |-> r.title,
                       questions |-> r.questions, questionCount |-> Len(r.questions),
                       qtiFilePath |-> r.path, plan |-> r.plan,
                       hasWatermark |-> PLAN_LIMITS_BY_NAME(r.plan).hasWatermark])
                /\ req' = [req EXCEPT ![p] = [r EXCEPT !.pc = "g_usage1"]]
           ELSE /\ req' = [req EXCEPT ![p] = Throw(r, RuntimeError("PrismaError", "create failed"))]
                /\ UNCHANGED quizzes
  /\ UNCHANGED <<refreshTokens, now, events, users, fileUploads, disk, nextPath, usage>>

\* fileService.recordUsage(userId, action): the user is read again and the
\* usage record is created, which may fail
RecordUsage(p, action, nextPc) ==
  LET r == req[p]
  IN  IF r.userId \notin DOMAIN users
      THEN /\ req' = [req EXCEPT ![p] = Throw(r, AppError(404, "User not found"))]
           /\ UNCHANGED usage
      ELSE \E stored \in BOOLEAN :
             IF stored
             THEN /\ usage' = Append(usage, [userId |-> r.userId, action |-> action, plan |-> users[r.userId].plan,
                                              at |-> now])
                  /\ req' = [req EXCEPT ![p] = IF nextPc = "done" THEN [r EXCEPT !.pc = "done", !.ok = TRUE]
                                               ELSE [r EXCEPT !.pc = nextPc]]
             ELSE /\ req' = [req EXCEPT ![p] = Throw(r, RuntimeError("PrismaError", "create failed"))]
                  /\ UNCHANGED usage

\* generateQuiz: recordUsage(userId, 'QUIZ_GENERATION')
GenUsageGeneration(p) ==
  /\ req[p].pc = "g_usage1"
  /\ RecordUsage(p, "QUIZ_GENERATION", "g_usage2")
  /\ UNCHANGED <<refreshTokens, now, events, users, fileUploads, quizzes, disk, nextPath>>

\* generateQuiz: recordUsage(userId, 'QTI_EXPORT'), then the result
GenUsageExport(p) ==
  /\ req[p].pc = "g_usage2"
  /\ RecordUsage(p, "QTI_EXPORT", "done")
  /\ UNCHANGED <<refreshTokens, now, events, users, fileUploads, quizzes, disk, nextPath>>

\* PATCH /api/quiz/:id: the controller wants a questions array
StartUpdate(p) ==
  /\ req[p].pc = "idle"
  /\ nextPath \in PackagePaths
  /\ \E u \in DOMAIN users, id \in QuizIds, isArray \in BOOLEAN,
        qs \in RequestQuestions, fn \in RequestFilenames :
       LET r == [Blank EXCEPT !.op = "updateQuizQuestions", !.userId = u, !.targetId = id,
                              !.body = qs, !.reqFilename = fn]
       IN  /\ isArray \/ (qs = <<>> /\ fn = Null)
           /\ req' = [req EXCEPT ![p] =
                IF ~ isArray THEN Throw(r, AppError(400, "Questions array is required"))
                ELSE [r EXCEPT !.pc = "u_quiz"]]
  /\ UNCHANGED store

\* a lookup by id alone
QuizErrorAnyOwner(quizId, userId) ==
  IF quizId \notin DOMAIN quizzes
  THEN AppError(404, "Quiz not found")
  ELSE NoErr

\* getQuizById(quizId, userId)
QuizError(quizId, userId) ==
  IF quizId \notin DOMAIN quizzes \/ quizzes[quizId].userId # userId
  THEN AppError(404, "Quiz not found")
  ELSE NoErr

\* updateQuizQuestions: the quiz is read
UpdReadQuiz(p) ==
  /\ req[p].pc = "u_quiz"
  /\ LET r == req[p]
         e == QuizError(r.targetId, r.userId)
     IN  req' = [req EXCEPT ![p] =
           IF e # NoErr THEN Throw(r, e)
           ELSE [r EXCEPT !.pc = "u_user", !.oldPath = quizzes[r.targetId].qtiFilePath,
                          !.title = quizzes[r.targetId].title]]
  /\ UNCHANGED store

\* an update that has the questions written again by the LLM
UpdReadUserRegenerating(p) ==
  /\ req[p].pc = "u_user"
  /\ req' = [req EXCEPT ![p] = [req[p] EXCEPT !.pc = "q_start", !.count = Len(req[p].body)]]
  /\ UNCHANGED store

\* updateQuizQuestions: the user is read and the plan limits are looked up;
\* nothing is read from the limits yet
UpdReadUser(p) ==
  /\ req[p].pc = "u_user"
  /\ LET r == req[p]
     IN  req' = [req EXCEPT ![p] =
           IF r.userId \notin DOMAIN users THEN Throw(r, AppError(404, "User not found"))
           ELSE [r EXCEPT !.pc = "u_unlink", !.plan = users[r.userId].plan]]
  /\ UNCHANGED store

\* an unlink whose error is thrown on
UpdUnlinkAborting(p) ==
  /\ req[p].pc = "u_unlink"
  /\ LET r == req[p]
     IN  \E unlinked \in BOOLEAN :
           IF unlinked /\ r.oldPath \in DOMAIN disk
           THEN /\ disk' = [k \in DOMAIN disk \ {r.oldPath} |-> disk[k]]
                /\ req' = [req EXCEPT ![p] = [r EXCEPT !.pc = "u_build", !.removed = TRUE]]
           ELSE /\ disk' = disk
                /\ req' = [req EXCEPT ![p] = Throw(r, RuntimeError("Error", "ENOENT"))]
  /\ UNCHANGED <<refreshTokens, now, events, users, fileUploads, quizzes, nextPath, usage>>

\* updateQuizQuestions: fs.unlink of the old package; an error is logged and
\* the call goes on
UpdUnlink(p) ==
  /\ req[p].pc = "u_unlink"
  /\ LET r == req[p]
     IN  \E unlinked \in BOOLEAN :
           IF unlinked /\ r.oldPath \in DOMAIN disk
           THEN /\ disk' = [k \in DOMAIN disk \ {r.oldPath} |-> disk[k]]
                /\ req' = [req EXCEPT ![p] = [r EXCEPT !.pc = "u_build", !.removed = TRUE]]
           ELSE /\ disk' = disk
                /\ req' = [req EXCEPT ![p] = [r EXCEPT !.pc = "u_build"]]
  /\ UNCHANGED <<refreshTokens, now, events, users, fileUploads, quizzes, nextPath, usage>>

\* updateQuizQuestions: the package build; reading hasWatermark of undefined
\* is a TypeError
UpdBuild(p) ==
  /\ req[p].pc = "u_build"
  /\ LET r == req[p]
         planLimits == PLAN_LIMITS_BY_NAME(r.plan)
     IN  IF ~ planLimits.defined
         THEN /\ req' = [req EXCEPT ![p] = Throw(r, RuntimeError("TypeError", "Cannot read properties of undefined"))]
              /\ UNCHANGED <<disk, nextPath>>
         ELSE BuildPackage(p, r,
                [by |-> "updateQuizQuestions", questions |-> r.body, hasWatermark |-> WatermarkOf(r, planLimits),
                 filename |-> FilenameFor(r), plan |-> r.plan],
                "u_write")
  /\ UNCHANGED <<refreshTokens, now, events, users, fileUploads, quizzes, usage>>

\* an update that stores the questions and leaves the record's path as it was
UpdWriteQuestionsOnly(p) ==
  /\ req[p].pc = "u_write"
  /\ LET r == req[p]
     IN  /\ r.targetId \in DOMAIN quizzes
         /\ quizzes' = [quizzes EXCEPT ![r.targetId] = [@ EXCEPT !.questions = r.body, !.questionCount = Len(r.body)]]
         /\ req' = [req EXCEPT ![p] = [r EXCEPT !.pc = "done", !.ok = TRUE, !.questions = r.body]]
  /\ UNCHANGED <<refreshTokens, now, events, users, fileUploads, disk, nextPath, usage>>

\* updateQuizQuestions: prisma.quiz.update, which may fail
UpdWrite(p) ==
  /\ req[p].pc = "u_write"
  /\ LET r == req[p]
     IN  \E stored \in BOOLEAN :
           IF stored /\ r.targetId \in DOMAIN quizzes
           THEN /\ quizzes' = [quizzes EXCEPT ![r.targetId] =
                      [@ EXCEPT !.questions = r.body, !.questionCount = Len(r.body), !.qtiFilePath = r.path]]
                /\ req' = [req EXCEPT ![p] = [r EXCEPT !.pc = "done", !.ok = TRUE, !.questions = r.body]]
           ELSE /\ req' = [req EXCEPT ![p] = Throw(r, RuntimeError("PrismaError", "update failed"))]
                /\ UNCHANGED quizzes
  /\ UNCHANGED <<refreshTokens, now, events, users, fileUploads, disk, nextPath, usage>>

\* POST /api/quiz/generate-question: the controller wants a fileUploadId and
\* defaults existingQuestions to []
StartGenerateQuestion(p) ==
  /\ req[p].pc = "idle"
  /\ \E u \in DOMAIN users, f \in DOMAIN fileUploads \cup {""}, existing \in ExistingTexts :
       LET r == [Blank EXCEPT !.op = "generateSingleQuestion", !.userId = u, !.targetId = f, !.existing = existing]
       IN  req' = [req EXCEPT ![p] =
             IF f = "" THEN Throw(r, AppError(400, "File upload ID is required"))
             ELSE [r EXCEPT !.pc = "r_file"]]
  /\ UNCHANGED store

\* quiz.service generateSingleQuestion: the upload is read, then the call is
\* handed to openai.service
GenQuestionReadFile(p) ==
  /\ req[p].pc = "r_file"
  /\ LET r == req[p]
         e == FileError(r.targetId, r.userId)
     IN  req' = [req EXCEPT ![p] = IF e # NoErr THEN Throw(r, e) ELSE [r EXCEPT !.pc = "s_call"]]
  /\ UNCHANGED store

\* GET /api/quiz/:id
StartGetQuiz(p) ==
  /\ req[p].pc = "idle"
  /\ \E u \in DOMAIN users, id \in QuizIds :
       req' = [req EXCEPT ![p] = [Blank EXCEPT !.op = "getQuizById", !.pc = "v_quiz", !.userId = u, !.targetId = id]]
  /\ UNCHANGED store

\* getQuizById: findFirst by id and userId, then the answer
GetQuiz(p) ==
  /\ req[p].pc = "v_quiz"
  /\ LET r == req[p]
         e == QuizError(r.targetId, r.userId)
     IN  req' = [req EXCEPT ![p] =
           IF e # NoErr THEN Throw(r, e)
           ELSE [r EXCEPT !.pc = "done", !.ok = TRUE, !.questions = quizzes[r.targetId].questions]]
  /\ UNCHANGED store

\* DELETE /api/quiz/:id
StartDelete(p) ==
  /\ req[p].pc = "idle"
  /\ \E u \in DOMAIN users, id \in QuizIds :
       req' = [req EXCEPT ![p] = [Blank EXCEPT !.op = "deleteQuiz", !.pc = "d_quiz", !.userId = u, !.targetId = id]]
  /\ UNCHANGED store

\* deleteQuiz: the quiz is read through getQuizById
DelReadQuiz(p) ==
  /\ req[p].pc = "d_quiz"
  /\ LET r == req[p]
         e == QuizError(r.targetId, r.userId)
     IN  req' = [req EXCEPT ![p] =
           IF e # NoErr THEN Throw(r, e)
           ELSE [r EXCEPT !.pc = "d_unlink", !.oldPath = quizzes[r.targetId].qtiFilePath]]
  /\ UNCHANGED store

\* deleteQuiz: fs.unlink of the package; a failure is logged and the call
\* goes on
DelUnlink(p) ==
  /\ req[p].pc = "d_unlink"
  /\ LET r == req[p]
     IN  \E unlinked \in BOOLEAN :
           IF unlinked /\ r.oldPath \in DOMAIN disk
           THEN /\ disk' = [k \in DOMAIN disk \ {r.oldPath} |-> disk[k]]
                /\ req' = [req EXCEPT ![p] = [r EXCEPT !.pc = "d_record", !.removed = TRUE]]
           ELSE /\ disk' = disk
                /\ req' = [req EXCEPT ![p] = [r EXCEPT !.pc = "d_record"]]
  /\ UNCHANGED <<refreshTokens, now, events, users, fileUploads, quizzes, nextPath, usage>>

\* deleteQuiz: prisma.quiz.delete, which may fail
DelRecord(p) ==
  /\ req[p].pc = "d_record"
  /\ LET r == req[p]
     IN  \E deleted \in BOOLEAN :
           IF deleted /\ r.targetId \in DOMAIN quizzes
           THEN /\ quizzes' = [k \in DOMAIN quizzes \ {r.targetId} |-> quizzes[k]]
                /\ req' = [req EXCEPT ![p] = [r EXCEPT !.pc = "done", !.ok = TRUE]]
           ELSE /\ req' = [req EXCEPT ![p] = Throw(r, RuntimeError("PrismaError", "delete failed"))]
                /\ UNCHANGED quizzes
  /\ UNCHANGED <<refreshTokens, now, events, users, fileUploads, disk, nextPath, usage>>

\* ------------------------------------------------------------------ file uploads
\* extractedText.trim().length < 100
MinTextLength == 100

\* the 7 days of checkUploadLimit, in ticks of the clock
WeekTicks == 1

\* ids prisma gives to new upload rows
UploadIds == {"n1", "n2"}

NewUploadId == CHOOSE id \in UploadIds : id \notin DOMAIN fileUploads

\* MIME types of an uploaded file; getFileType knows the first
Mimetypes == {"application/pdf", "image/png"}

\* what the extraction of an uploaded file yields
UploadTexts == {NoText, Text(50, 0, 0), Text(50, MinTextLength - 1, 0), Text(0, MinTextLength, 0)}

\* the UPLOAD usage rows of the last 7 days
RecentUploads(userId) ==
  { k \in DOMAIN usage : usage[k].userId = userId /\ usage[k].action = "UPLOAD" /\ usage[k].at >= now - WeekTicks }

\* checkUploadLimit
CanUpload(userId) == IF users[userId].plan = "FREE" THEN Cardinality(RecentUploads(userId)) < 1 ELSE TRUE

\* POST /api/upload: the controller wants a file
StartUpload(p) ==
  /\ req[p].pc = "idle"
  /\ UploadIds \ DOMAIN fileUploads # {}
  /\ \E u \in DOMAIN users, hasFile \in BOOLEAN, m \in Mimetypes, t \in UploadTexts :
       LET r == [Blank EXCEPT !.op = "uploadFile", !.userId = u, !.mimetype = m, !.text = t]
       IN  /\ hasFile \/ (m = "application/pdf" /\ t = NoText)
           /\ req' = [req EXCEPT ![p] =
                IF ~ hasFile THEN Throw(r, AppError(400, "No file uploaded"))
                ELSE [r EXCEPT !.pc = "f_limit"]]
  /\ UNCHANGED store

\* uploadFile: checkUploadLimit
UploadCheckLimit(p) ==
  /\ req[p].pc = "f_limit"
  /\ LET r == req[p]
     IN  req' = [req EXCEPT ![p] =
           IF r.userId \notin DOMAIN users THEN Throw(r, AppError(404, "User not found"))
           ELSE IF ~ CanUpload(r.userId)
           THEN Throw(r, AppError(429, "Upload limit exceeded. Upgrade to Pro for unlimited uploads."))
           ELSE [r EXCEPT !.pc = "f_create"]]
  /\ UNCHANGED store

\* processFileUpload: the type check and prisma.fileUpload.create, which may
\* fail
UploadCreate(p) ==
  /\ req[p].pc = "f_create"
  /\ UploadIds \ DOMAIN fileUploads # {}
  /\ LET r == req[p]
     IN  IF r.mimetype # "application/pdf"
         THEN /\ req' = [req EXCEPT ![p] =
                   Throw(r, AppError(400, "Invalid file type. Only PDF, DOCX, and TXT are allowed"))]
              /\ UNCHANGED fileUploads
         ELSE \E stored \in BOOLEAN :
                IF stored
                THEN /\ fileUploads' = [f \in DOMAIN fileUploads \cup {NewUploadId} |->
                                          IF f = NewUploadId
                                          THEN [userId |-> r.userId, hasText |-> FALSE, originalName |-> <<"Q", ".">>,
                                                status |-> "PROCESSING", extractedText |-> NoText]
                                          ELSE fileUploads[f]]
                     /\ req' = [req EXCEPT ![p] = [r EXCEPT !.pc = "f_extract", !.targetId = NewUploadId]]
                ELSE /\ req' = [req EXCEPT ![p] = Throw(r, RuntimeError("PrismaError", "create failed"))]
                     /\ UNCHANGED fileUploads
  /\ UNCHANGED <<refreshTokens, now, events, users, quizzes, disk, nextPath, usage>>

\* the error thrown for an extracted text, if any
TextError(t) ==
  IF Length(t) = 0 \/ TrimLength(t) < MinTextLength
  THEN AppError(400, "File content too short or empty. Please upload a file with at least 100 characters.")
  ELSE NoErr

\* processFileUpload, the try block: the extraction, which may throw, the
\* length check and the update to COMPLETED, which may fail; an error goes
\* to the catch block
UploadExtract(p) ==
  /\ req[p].pc = "f_extract"
  /\ LET r == req[p]
     IN  \E readable \in BOOLEAN, stored \in BOOLEAN :
           LET e == IF ~ readable THEN RuntimeError("Error", "cannot read file")
                    ELSE IF TextError(r.text) # NoErr THEN TextError(r.text)
                    ELSE IF ~ stored THEN RuntimeError("PrismaError", "update failed")
                    ELSE NoErr
           IN  IF e # NoErr
               THEN /\ req' = [req EXCEPT ![p] = [r EXCEPT !.pc = "f_catch", !.err = e]]
                    /\ UNCHANGED fileUploads
               ELSE /\ fileUploads' = [fileUploads EXCEPT ![r.targetId] =
                                         [@ EXCEPT !.status = "COMPLETED", !.extractedText = r.text,
                                                   !.hasText = TRUE]]
                    /\ req' = [req EXCEPT ![p] = [r EXCEPT !.pc = "f_usage"]]
  /\ UNCHANGED <<refreshTokens, now, events, users, quizzes, disk, nextPath, usage>>

\* processFileUpload, the catch block: the update to FAILED, which may fail
\* too and then throws in place of the error caught
UploadCatch(p) ==
  /\ req[p].pc = "f_catch"
  /\ LET r == req[p]
     IN  \E stored \in BOOLEAN :
           IF stored
           THEN /\ fileUploads' = [fileUploads EXCEPT ![r.targetId] = [@ EXCEPT !.status = "FAILED"]]
                /\ req' = [req EXCEPT ![p] = Throw(r, r.err)]
           ELSE /\ req' = [req EXCEPT ![p] = Throw(r, RuntimeError("PrismaError", "update failed"))]
                /\ UNCHANGED fileUploads
  /\ UNCHANGED <<refreshTokens, now, events, users, quizzes, disk, nextPath, usage>>

\* a successful upload of a user and when it was answered
Uploaded(userId, id, at) == [what |-> "uploaded", userId |-> userId, id |-> id, at |-> at]

\* uploadFile: recordUsage(userId, 'UPLOAD'), then the answer; events keeps
\* the uploads answered with success
UploadRecordUsage(p) ==
  /\ req[p].pc = "f_usage"
  /\ RecordUsage(p, "UPLOAD", "done")
  /\ events' = IF req'[p].ok THEN events \cup {Uploaded(req[p].userId, req[p].targetId, now)} ELSE events
  /\ UNCHANGED <<refreshTokens, now, users, fileUploads, quizzes, disk, nextPath>>

\* ------------------------------------------------------------------ auth
\* the clock runs to MaxTime
MaxTime == 2

\* JWT_ACCESS_EXPIRES and JWT_REFRESH_EXPIRES, in ticks of the clock
AccessLife == 1

RefreshLife == 2

\* email addresses of request bodies; u1 is registered
Emails == {"u1", "e2", "e3"}

Passwords == {"pw", "bad"}

\* ids prisma gives to new user rows
UserIds == {"u1", "u2", "u3"}

NewUserId == CHOOSE id \in UserIds : id \notin DOMAIN users

Life(kind) == IF kind = "access" THEN AccessLife ELSE RefreshLife

\* jwt.verify(token, secret): the name of the error thrown, or "ok"
Verify(token, kind) ==
  IF token.kind # kind THEN "JsonWebTokenError"
  ELSE IF now >= token.iat + Life(kind) THEN "TokenExpiredError"
  ELSE "ok"

\* generateTokens(payload): jwt.sign stamps the payload with the current
\* second, so two calls for one user within a second give the same strings
GenerateTokens(userId) ==
  [accessToken |-> Token("access", userId, now), refreshToken |-> Token("refresh", userId, now)]

\* the row prisma.refreshToken.create stores
RefreshTokenRow(userId, token) == [userId |-> userId, token |-> token, expiresAt |-> now + RefreshLife]

\* events keeps the tokens handed to a client and the tokens whose logout
\* has completed
Issued(token) == [what |-> "issued", token |-> token]

LoggedOut(token) == [what |-> "logout", token |-> token]

\* prisma.refreshToken.create; token is a unique column
CreateRefreshToken(p, r, userId) ==
  LET tokens == GenerateTokens(userId)
  IN  IF \E row \in refreshTokens : row.token = tokens.refreshToken
      THEN /\ req' = [req EXCEPT ![p] = Throw(r, RuntimeError("PrismaClientKnownRequestError", "Unique constraint failed"))]
           /\ UNCHANGED <<refreshTokens, events>>
      ELSE /\ refreshTokens' = refreshTokens \cup {RefreshTokenRow(userId, tokens.refreshToken)}
           /\ events' = events \cup {Issued(tokens.accessToken), Issued(tokens.refreshToken)}
           /\ req' = [req EXCEPT ![p] = [r EXCEPT !.pc = "done", !.ok = TRUE, !.status = 200,
                                                  !.token = tokens.refreshToken,
                                                  !.accessToken = tokens.accessToken]]

\* POST /api/auth/register
StartRegister(p) ==
  /\ req[p].pc = "idle"
  /\ \E email \in Emails :
       req' = [req EXCEPT ![p] = [Blank EXCEPT !.op = "registerUser", !.pc = "a_find", !.email = email]]
  /\ UNCHANGED store

\* registerUser: prisma.user.findUnique by email
RegFind(p) ==
  /\ req[p].pc = "a_find"
  /\ LET r == req[p]
     IN  req' = [req EXCEPT ![p] =
           IF \E u \in DOMAIN users : users[u].email = r.email
           THEN Throw(r, AppError(409, "User already exists"))
           ELSE [r EXCEPT !.pc = "a_create"]]
  /\ UNCHANGED store

\* registerUser: bcrypt.hash, then prisma.user.create; email is a unique
\* column
RegCreate(p) ==
  /\ req[p].pc = "a_create"
  /\ LET r == req[p]
     IN  IF \E u \in DOMAIN users : users[u].email = r.email
         THEN /\ req' = [req EXCEPT ![p] = Throw(r, RuntimeError("PrismaClientKnownRequestError", "Unique constraint failed"))]
              /\ UNCHANGED users
         ELSE /\ users' = [u \in DOMAIN users \cup {NewUserId} |->
                             IF u = NewUserId
                             THEN [email |-> r.email, plan |-> "FREE", stripeCustomerId |-> "",
                                   stripeSubscriptionId |-> "", subscriptionStatus |-> ""]
                             ELSE users[u]]
              /\ req' = [req EXCEPT ![p] = [r EXCEPT !.pc = "a_token", !.userId = NewUserId]]
  /\ UNCHANGED <<refreshTokens, now, events, fileUploads, quizzes, disk, nextPath, usage>>

\* registerUser: generateTokens and prisma.refreshToken.create
RegToken(p) ==
  /\ req[p].pc = "a_token"
  /\ CreateRefreshToken(p, req[p], req[p].userId)
  /\ UNCHANGED <<now, users, fileUploads, quizzes, disk, nextPath, usage>>

\* POST /api/auth/login
StartLogin(p) ==
  /\ req[p].pc = "idle"
  /\ \E email \in Emails, password \in Passwords :
       req' = [req EXCEPT ![p] = [Blank EXCEPT !.op = "loginUser", !.pc = "l_find", !.email = email,
                                               !.password = password]]
  /\ UNCHANGED store

\* loginUser: the user is read and the password compared
LoginFind(p) ==
  /\ req[p].pc = "l_find"
  /\ LET r == req[p]
         found == {u \in DOMAIN users : users[u].email = r.email}
     IN  req' = [req EXCEPT ![p] =
           IF found = {} \/ r.password # "pw" THEN Throw(r, AppError(401, "Invalid credentials"))
           ELSE [r EXCEPT !.pc = "l_token", !.userId = CHOOSE u \in found : TRUE]]
  /\ UNCHANGED store

\* loginUser: generateTokens and prisma.refreshToken.create
LoginToken(p) ==
  /\ req[p].pc = "l_token"
  /\ CreateRefreshToken(p, req[p], req[p].userId)
  /\ UNCHANGED <<now, users, fileUploads, quizzes, disk, nextPath, usage>>

\* tokens a request may carry: those the server has handed out, and a
\* string that is no JWT
TokenInputs == { e.token : e \in {x \in events : x.what = "issued"} } \cup { Token("garbage", "", 0) }

\* POST /api/auth/refresh
StartRefresh(p) ==
  /\ req[p].pc = "idle"
  /\ \E t \in TokenInputs :
       req' = [req EXCEPT ![p] = [Blank EXCEPT !.op = "refreshAccessToken", !.pc = "f_check", !.token = t]]
  /\ UNCHANGED store

\* refreshAccessToken: verifyRefreshToken, the stored row, its expiry, and
\* the new access token
Refresh(p) ==
  /\ req[p].pc = "f_check"
  /\ LET r == req[p]
         verified == Verify(r.token, "refresh")
         stored == {row \in refreshTokens : row.token = r.token}
     IN  IF verified # "ok"
         THEN /\ req' = [req EXCEPT ![p] = Throw(r, RuntimeError(verified, "jwt error"))]
              /\ UNCHANGED <<refreshTokens, events>>
         ELSE IF stored = {}
         THEN /\ req' = [req EXCEPT ![p] = Throw(r, AppError(401, "Invalid refresh token"))]
              /\ UNCHANGED <<refreshTokens, events>>
         ELSE IF \E row \in stored : row.expiresAt < now
         THEN /\ refreshTokens' = refreshTokens \ stored
              /\ req' = [req EXCEPT ![p] = Throw(r, AppError(401, "Refresh token expired"))]
              /\ UNCHANGED events
         ELSE /\ req' = [req EXCEPT ![p] = [r EXCEPT !.pc = "done", !.ok = TRUE, !.status = 200,
                                                     !.accessToken = GenerateTokens(r.token.sub).accessToken]]
              /\ events' = events \cup {Issued(GenerateTokens(r.token.sub).accessToken)}
              /\ UNCHANGED refreshTokens
  /\ UNCHANGED <<now, users, fileUploads, quizzes, disk, nextPath, usage>>

\* POST /api/auth/logout
StartLogout(p) ==
  /\ req[p].pc = "idle"
  /\ \E t \in TokenInputs :
       req' = [req EXCEPT ![p] = [Blank EXCEPT !.op = "logoutUser", !.pc = "o_delete", !.token = t]]
  /\ UNCHANGED store

\* logoutUser: prisma.refreshToken.deleteMany where token
Logout(p) ==
  /\ req[p].pc = "o_delete"
  /\ refreshTokens' = {row \in refreshTokens : row.token # req[p].token}
  /\ events' = events \cup {LoggedOut(req[p].token)}
  /\ req' = [req EXCEPT ![p] = [req[p] EXCEPT !.pc = "done", !.ok = TRUE, !.status = 200]]
  /\ UNCHANGED <<now, users, fileUploads, quizzes, disk, nextPath, usage>>

\* Authorization headers of a request to a protected route
AuthSchemes == {"none", "Basic", "Bearer"}

\* a request to a route behind authenticate
StartProtected(p) ==
  /\ req[p].pc = "idle"
  /\ \E scheme \in AuthSchemes, t \in TokenInputs \cup {Token("forged", "u1", now)} :
       /\ scheme = "none" => t = Token("garbage", "", 0)
       /\ req' = [req EXCEPT ![p] = [Blank EXCEPT !.op = "protected", !.pc = "m_auth", !.scheme = scheme, !.token = t]]
  /\ UNCHANGED store

\* authenticate: a missing or non-Bearer header throws inside the try and
\* goes to next(error); a jwt error is rethrown as an AppError from the catch
\* block of the async function, whose rejected promise the framework either
\* hands to the error handler or leaves unhandled (no response is sent)
Authenticate(p) ==
  /\ req[p].pc = "m_auth"
  /\ LET r == req[p]
         verified == Verify(r.token, "access")
     IN  IF r.scheme # "Bearer"
         THEN req' = [req EXCEPT ![p] = [Throw(r, AppError(401, "No token provided")) EXCEPT !.status = 401]]
         ELSE IF verified = "ok"
         THEN req' = [req EXCEPT ![p] = [r EXCEPT !.pc = "m_ctrl", !.userId = r.token.sub]]
         ELSE \E forwarded \in BOOLEAN :
                LET e == IF verified = "TokenExpiredError" THEN AppError(401, "Token expired")
                         ELSE AppError(401, "Invalid token")
                IN  req' = [req EXCEPT ![p] = [Throw(r, e) EXCEPT !.status = IF forwarded THEN 401 ELSE 0]]
  /\ UNCHANGED store

\* the controller behind authenticate runs and answers
Controller(p) ==
  /\ req[p].pc = "m_ctrl"
  /\ req' = [req EXCEPT ![p] = [req[p] EXCEPT !.pc = "done", !.ok = TRUE, !.ran = TRUE, !.status = 200]]
  /\ UNCHANGED store

\* a second passes
Tick ==
  /\ now < MaxTime
  /\ now' = now + 1
  /\ UNCHANGED <<users, fileUploads, quizzes, disk, nextPath, usage, refreshTokens, events, req>>

\* ------------------------------------------------------------------ web client
\* the slot in which the API serves the browser's request
API == "p1"

\* a browser: accessToken and refreshToken are its localStorage entries,
\* retry is originalRequest._retry
Browser == [Blank EXCEPT !.op = "client", !.pc = "c_out"]

\* handleImmediateLogout, the promise being rejected with e
ImmediateLogout(r, e) ==
  [r EXCEPT !.pc = "c_out", !.accessToken = NoToken, !.refreshToken = NoToken, !.retry = FALSE, !.ok = FALSE, !.err = e]

\* login(email, password): api.post('/auth/login')
ClientLogin(c) ==
  /\ req[c].op = "client"
  /\ req[c].pc = "c_out"
  /\ req[API].pc = "idle"
  /\ \E password \in Passwords :
       req' = [req EXCEPT ![c] = [@ EXCEPT !.pc = "c_login"],
                          ![API] = [Blank EXCEPT !.op = "loginUser", !.pc = "l_find", !.email = "u1",
                                                 !.password = password]]
  /\ UNCHANGED store

\* login: the tokens of the response go to localStorage; a 401 goes through
\* the response interceptor, which finds no refresh token
ClientLoggedIn(c) ==
  /\ req[c].op = "client"
  /\ req[c].pc = "c_login"
  /\ req[API].pc = "done"
  /\ req' = [req EXCEPT ![API] = Blank,
                        ![c] = IF req[API].ok
                               THEN [@ EXCEPT !.pc = "c_in", !.accessToken = req[API].accessToken,
                                              !.refreshToken = req[API].token, !.ok = TRUE, !.err = NoErr]
                               ELSE ImmediateLogout(@, req[API].err)]
  /\ UNCHANGED store

\* payload.exp of a token the server signed
Exp(token) == token.iat + Life(token.kind)

\* the request interceptor, for a new request and for the retry after a
\* refresh: an access token that has expired logs the user out and the
\* request is not sent
ClientRequest(c) ==
  /\ req[c].op = "client"
  /\ req[c].pc \in {"c_in", "c_retry"}
  /\ req[API].pc = "idle"
  /\ LET r == req[c]
     IN  req' = IF now >= Exp(r.accessToken)
                THEN [req EXCEPT ![c] = ImmediateLogout(r, RuntimeError("Error", "Token expired"))]
                ELSE [req EXCEPT ![c] = [r EXCEPT !.pc = "c_wait", !.retry = (r.pc = "c_retry")],
                                 ![API] = [Blank EXCEPT !.op = "protected", !.pc = "m_auth", !.scheme = "Bearer",
                                                        !.token = r.accessToken]]
  /\ UNCHANGED store

\* the response interceptor: a first 401 posts the refresh token to
\* /api/auth/refresh; any other error is handed to the caller
ClientResponse(c) ==
  /\ req[c].op = "client"
  /\ req[c].pc = "c_wait"
  /\ req[API].pc = "done"
  /\ req[API].status # 0
  /\ LET r == req[c]
         res == req[API]
     IN  req' = IF res.ok
                THEN [req EXCEPT ![API] = Blank, ![c] = [r EXCEPT !.pc = "c_in", !.retry = FALSE, !.ok = TRUE,
                                                                  !.err = NoErr]]
                ELSE IF res.status = 401 /\ ~ r.retry
                THEN IF r.refreshToken # NoToken
                     THEN [req EXCEPT ![c] = [r EXCEPT !.pc = "c_refresh", !.retry = TRUE],
                                      ![API] = [Blank EXCEPT !.op = "refreshAccessToken", !.pc = "f_check",
                                                             !.token = r.refreshToken]]
                     ELSE [req EXCEPT ![API] = Blank, ![c] = ImmediateLogout(r, res.err)]
                ELSE [req EXCEPT ![API] = Blank, ![c] = [r EXCEPT !.pc = "c_in", !.retry = FALSE, !.ok = FALSE,
                                                                  !.err = res.err]]
  /\ UNCHANGED store

\* the response interceptor after the refresh: the new access token is
\* stored and the request is sent again; a failed refresh logs the user out
ClientRefreshed(c) ==
  /\ req[c].op = "client"
  /\ req[c].pc = "c_refresh"
  /\ req[API].pc = "done"
  /\ req' = [req EXCEPT ![API] = Blank,
                        ![c] = IF req[API].ok
                               THEN [@ EXCEPT !.pc = "c_retry", !.accessToken = req[API].accessToken]
                               ELSE ImmediateLogout(@, req[API].err)]
  /\ UNCHANGED store

\* ------------------------------------------------------------------ stripe webhooks
\* handleCheckoutCompleted for a subscription that is active: without a
\* userId in the metadata nothing happens; a failing subscriptions.retrieve
\* or user update is logged
HandleCheckoutCompleted ==
  /\ \E u \in DOMAIN users \cup {""}, retrieved \in BOOLEAN :
       users' = IF u = "" \/ ~ retrieved THEN users
                ELSE [users EXCEPT ![u] = [@ EXCEPT !.plan = "PRO", !.stripeCustomerId = "cus",
                                              !.stripeSubscriptionId = "sub", !.subscriptionStatus = "active"]]
  /\ UNCHANGED <<refreshTokens, now, events, fileUploads, quizzes, disk, nextPath, usage, req>>

\* handleSubscriptionDeleted: the user of the subscription goes back to FREE
HandleSubscriptionDeleted ==
  /\ \E sub \in {"sub"} :
       LET found == { u \in DOMAIN users : users[u].stripeSubscriptionId = sub }
       IN  users' = IF found = {} THEN users
                    ELSE LET u == CHOOSE x \in found : TRUE
                         IN  [users EXCEPT ![u] = [@ EXCEPT !.plan = "FREE", !.subscriptionStatus = "canceled"]]
  /\ UNCHANGED <<refreshTokens, now, events, fileUploads, quizzes, disk, nextPath, usage, req>>

\* subscription.status values of Stripe
SubscriptionStatuses == {"active", "past_due", "canceled"}

\* the events Stripe delivers: a checkout session with or without a userId in
\* its metadata, a subscription update with its status, a subscription
\* deletion, a failed invoice payment, and a type the switch does not know
WebhookEvents ==
  { StripeEvent("checkout.session.completed", u, "cus", "sub", "") : u \in {"u1", ""} }
    \cup { StripeEvent("customer.subscription.updated", "", "cus", "sub", st) : st \in SubscriptionStatuses }
    \cup { StripeEvent("customer.subscription.deleted", "", "cus", "sub", "canceled"),
           StripeEvent("invoice.payment_failed", "", "cus", "", ""),
           StripeEvent("invoice.paid", "", "cus", "", "") }

\* POST /api/subscription/webhook: constructEvent verifies the signature
StartWebhook(p) ==
  /\ req[p].pc = "idle"
  /\ \E e \in WebhookEvents, verified \in BOOLEAN :
       LET r == [Blank EXCEPT !.op = "handleWebhookEvent", !.event = e]
       IN  req' = [req EXCEPT ![p] =
             IF verified THEN [r EXCEPT !.pc = "w_handle"]
             ELSE Throw(r, AppError(400, "Invalid webhook signature"))]
  /\ UNCHANGED store

\* the handler of slot p has run for its event; events keeps the event
\* processed last and whether its update was written
Handled(p, applied) ==
  /\ req' = [req EXCEPT ![p] = [req[p] EXCEPT !.pc = "done", !.ok = TRUE, !.status = 200]]
  /\ events' = {[event |-> req[p].event, applied |-> applied]}

\* the user rows findFirst may return for a Stripe id
UsersBySubscription(sub) == {u \in DOMAIN users : users[u].stripeSubscriptionId = sub}

UsersByCustomer(cus) == {u \in DOMAIN users : users[u].stripeCustomerId = cus}

\* handleCheckoutCompleted: the subscription is read from Stripe as it is
\* now, and the user is written with its id and status
WebhookCheckoutCompleted(p) ==
  /\ req[p].pc = "w_handle"
  /\ req[p].event.type = "checkout.session.completed"
  /\ LET e == req[p].event
     IN  IF e.userId = ""
         THEN users' = users /\ Handled(p, FALSE)
         ELSE \E retrieved \in BOOLEAN, st \in SubscriptionStatuses :
                IF retrieved /\ e.userId \in DOMAIN users
                THEN /\ users' = [users EXCEPT ![e.userId] =
                                    [@ EXCEPT !.plan = "PRO", !.stripeCustomerId = e.customer,
                                              !.stripeSubscriptionId = e.subscription,
                                              !.subscriptionStatus = st]]
                     /\ Handled(p, TRUE)
                ELSE users' = users /\ Handled(p, FALSE)
  /\ UNCHANGED <<refreshTokens, now, fileUploads, quizzes, disk, nextPath, usage>>

\* handleSubscriptionUpdated: the status of the event is written, and the
\* plan too when the status is active
WebhookSubscriptionUpdated(p) ==
  /\ req[p].pc = "w_handle"
  /\ req[p].event.type = "customer.subscription.updated"
  /\ LET e == req[p].event
         found == UsersBySubscription(e.subscription)
     IN  \E written \in BOOLEAN :
           IF written /\ found # {}
           THEN /\ users' = [users EXCEPT ![CHOOSE u \in found : TRUE] =
                               [@ EXCEPT !.subscriptionStatus = e.status,
                                         !.plan = IF e.status = "active" THEN "PRO" ELSE @]]
                /\ Handled(p, TRUE)
           ELSE users' = users /\ Handled(p, FALSE)
  /\ UNCHANGED <<refreshTokens, now, fileUploads, quizzes, disk, nextPath, usage>>

\* handleSubscriptionDeleted: the user of the subscription goes back to FREE
WebhookSubscriptionDeleted(p) ==
  /\ req[p].pc = "w_handle"
  /\ req[p].event.type = "customer.subscription.deleted"
  /\ LET e == req[p].event
         found == UsersBySubscription(e.subscription)
     IN  \E written \in BOOLEAN :
           IF written /\ found # {}
           THEN /\ users' = [users EXCEPT ![CHOOSE u \in found : TRUE] =
                               [@ EXCEPT !.plan = "FREE", !.subscriptionStatus = "canceled"]]
                /\ Handled(p, TRUE)
           ELSE users' = users /\ Handled(p, FALSE)
  /\ UNCHANGED <<refreshTokens, now, fileUploads, quizzes, disk, nextPath, usage>>

\* handlePaymentFailed: the user of the customer is marked past_due
WebhookPaymentFailed(p) ==
  /\ req[p].pc = "w_handle"
  /\ req[p].event.type = "invoice.payment_failed"
  /\ LET e == req[p].event
         found == UsersByCustomer(e.customer)
     IN  \E written \in BOOLEAN :
           IF written /\ found # {}
           THEN /\ users' = [users EXCEPT ![CHOOSE u \in found : TRUE] = [@ EXCEPT !.subscriptionStatus = "past_due"]]
                /\ Handled(p, TRUE)
           ELSE users' = users /\ Handled(p, FALSE)
  /\ UNCHANGED <<refreshTokens, now, fileUploads, quizzes, disk, nextPath, usage>>

\* the default branch of the switch: the type is logged
WebhookUnhandled(p) ==
  /\ req[p].pc = "w_handle"
  /\ req[p].event.type = "invoice.paid"
  /\ users' = users
  /\ Handled(p, FALSE)
  /\ UNCHANGED <<refreshTokens, now, fileUploads, quizzes, disk, nextPath, usage>>

\* ------------------------------------------------------------------ specifications
InitStore ==
  /\ users = [u \in {"u1"} |-> [email |-> "u1", plan |-> "FREE", stripeCustomerId |-> "", stripeSubscriptionId |-> "",
                                  subscriptionStatus |-> ""]]
  /\ fileUploads = [f \in {"f1"} |-> [userId |-> "u1", hasText |-> TRUE, originalName |-> <<"Q", ".">>]]
  /\ quizzes = <<>>
  /\ disk = <<>>
  /\ nextPath = 1
  /\ usage = <<>>
  /\ refreshTokens = {}
  /\ now = 0
  /\ events = {}

Init ==
  /\ InitStore
  /\ req = [p \in {"p1"} |-> Blank]

\* the question generator under direct calls and under
\* POST /api/quiz/generate-question
NextGen ==
  \/ \E p \in Procs : CallGenerateQuizQuestions(p)
  \/ \E p \in Procs : CallGenerateSingleQuestion(p)
  \/ \E p \in Procs : StartGenerateQuestion(p)
  \/ \E p \in Procs : GenQuestionReadFile(p)
  \/ \E p \in Procs : GQStart(p)
  \/ \E p \in Procs : GQBulk(p)
  \/ \E p \in Procs : GQBackfill(p)
  \/ \E p \in Procs : GSCall(p)
  \/ \E p \in Procs : Return(p)

SpecGen == Init /\ [][NextGen]_vars

\* every awaited step of generateQuizQuestions settles: the count guard runs,
\* and each chat completion the function awaits returns or throws
GeneratorStep == \E p \in Procs : GQStart(p) \/ GQBulk(p) \/ GQBackfill(p)

SpecGenFair == SpecGen /\ WF_vars(GeneratorStep)

\* POST /api/quiz and PATCH /api/quiz/:id under plan changes
Next ==
  \/ \E p \in Procs : StartGenerate(p)
  \/ \E p \in Procs : GenReadUser(p)
  \/ \E p \in Procs : GenReadFile(p)
  \/ \E p \in Procs : GQStart(p)
  \/ \E p \in Procs : GQBulk(p)
  \/ \E p \in Procs : GQBackfill(p)
  \/ \E p \in Procs : GenBuild(p)
  \/ \E p \in Procs : GenCreate(p)
  \/ \E p \in Procs : GenUsageGeneration(p)
  \/ \E p \in Procs : GenUsageExport(p)
  \/ \E p \in Procs : StartUpdate(p)
  \/ \E p \in Procs : UpdReadQuiz(p)
  \/ \E p \in Procs : UpdReadUser(p)
  \/ \E p \in Procs : UpdUnlink(p)
  \/ \E p \in Procs : UpdBuild(p)
  \/ \E p \in Procs : UpdWrite(p)
  \/ \E p \in Procs : Return(p)
  \/ HandleCheckoutCompleted
  \/ HandleSubscriptionDeleted

Spec == Init /\ [][Next]_vars

\* a store whose user row carries a plan name outside the plan table, with or
\* without a quiz of that user generated earlier
InitAnyPlan ==
  /\ users = [u \in {"u1"} |-> [email |-> "u1", plan |-> "ENTERPRISE", stripeCustomerId |-> "", stripeSubscriptionId |-> "",
                                  subscriptionStatus |-> ""]]
  /\ fileUploads = [f \in {"f1"} |-> [userId |-> "u1", hasText |-> TRUE, originalName |-> <<"Q", ".">>]]
  /\ usage = <<>>
  /\ refreshTokens = {}
  /\ now = 0
  /\ events = {}
  /\ req = [p \in {"p1"} |-> Blank]
  /\ \/ quizzes = <<>> /\ disk = <<>> /\ nextPath = 1
     \/ /\ quizzes = << [userId |-> "u1", fileUploadId |-> "f1", title |-> <<"Q", ".">>,
                          questions |-> Full(2), questionCount |-> 2, qtiFilePath |-> 1,
                          plan |-> "FREE", hasWatermark |-> TRUE] >>
        /\ disk = << [by |-> "generateQuiz", questions |-> Full(2), hasWatermark |-> TRUE,
                      filename |-> <<"q", "_">>, plan |-> "FREE"] >>
        /\ nextPath = 2

SpecAnyPlan == InitAnyPlan /\ [][Next]_vars

\* two PATCH requests in flight against a quiz generated earlier
InitRace ==
  /\ users = [u \in {"u1"} |-> [email |-> "u1", plan |-> "FREE", stripeCustomerId |-> "", stripeSubscriptionId |-> "",
                                  subscriptionStatus |-> ""]]
  /\ fileUploads = [f \in {"f1"} |-> [userId |-> "u1", hasText |-> TRUE, originalName |-> <<"Q", ".">>]]
  /\ quizzes = << [userId |-> "u1", fileUploadId |-> "f1", title |-> <<"Q", ".">>,
                   questions |-> Full(2), questionCount |-> 2, qtiFilePath |-> 1,
                   plan |-> "FREE", hasWatermark |-> TRUE] >>
  /\ disk = << [by |-> "generateQuiz", questions |-> Full(2), hasWatermark |-> TRUE,
                filename |-> <<"q", "_">>, plan |-> "FREE"] >>
  /\ nextPath = 2
  /\ usage = <<>>
  /\ refreshTokens = {}
  /\ now = 0
  /\ events = {}
  /\ req = [p \in {"p1", "p2"} |-> Blank]

NextRace ==
  \/ \E p \in Procs : StartUpdate(p)
  \/ \E p \in Procs : UpdReadQuiz(p)
  \/ \E p \in Procs : UpdReadUser(p)
  \/ \E p \in Procs : UpdUnlink(p)
  \/ \E p \in Procs : UpdBuild(p)
  \/ \E p \in Procs : UpdWrite(p)
  \/ \E p \in Procs : Return(p)

SpecRace == InitRace /\ [][NextRace]_vars

\* two users, one of whom owns the only upload and generates the only quiz
InitOwners ==
  /\ users = [u \in {"u1", "u2"} |-> [email |-> u, plan |-> "FREE", stripeCustomerId |-> "",
                                        stripeSubscriptionId |-> "", subscriptionStatus |-> ""]]
  /\ fileUploads = [f \in {"f1"} |-> [userId |-> "u1", hasText |-> TRUE, originalName |-> <<"Q", ".">>]]
  /\ quizzes = <<>>
  /\ disk = <<>>
  /\ nextPath = 1
  /\ usage = <<>>
  /\ refreshTokens = {}
  /\ now = 0
  /\ events = {}
  /\ req = [p \in {"p1"} |-> Blank]

\* the quiz routes and the service functions behind them
NextOwners ==
  \/ \E p \in Procs : StartGenerate(p)
  \/ \E p \in Procs : GenReadUser(p)
  \/ \E p \in Procs : GenReadFile(p)
  \/ \E p \in Procs : GQStart(p)
  \/ \E p \in Procs : GQBulk(p)
  \/ \E p \in Procs : GQBackfill(p)
  \/ \E p \in Procs : GenBuild(p)
  \/ \E p \in Procs : GenCreate(p)
  \/ \E p \in Procs : GenUsageGeneration(p)
  \/ \E p \in Procs : GenUsageExport(p)
  \/ \E p \in Procs : StartUpdate(p)
  \/ \E p \in Procs : UpdReadQuiz(p)
  \/ \E p \in Procs : UpdReadUser(p)
  \/ \E p \in Procs : UpdUnlink(p)
  \/ \E p \in Procs : UpdBuild(p)
  \/ \E p \in Procs : UpdWrite(p)
  \/ \E p \in Procs : StartGetQuiz(p)
  \/ \E p \in Procs : GetQuiz(p)
  \/ \E p \in Procs : StartDelete(p)
  \/ \E p \in Procs : DelReadQuiz(p)
  \/ \E p \in Procs : DelUnlink(p)
  \/ \E p \in Procs : DelRecord(p)
  \/ \E p \in Procs : StartGenerateQuestion(p)
  \/ \E p \in Procs : GenQuestionReadFile(p)
  \/ \E p \in Procs : GSCall(p)
  \/ \E p \in Procs : Return(p)

SpecOwners == InitOwners /\ [][NextOwners]_vars

\* two POST /api/auth/register requests in flight
InitRegister ==
  /\ InitStore
  /\ req = [p \in {"p1", "p2"} |-> Blank]

NextRegister ==
  \/ \E p \in Procs : StartRegister(p)
  \/ \E p \in Procs : RegFind(p)
  \/ \E p \in Procs : RegCreate(p)
  \/ \E p \in Procs : RegToken(p)
  \/ \E p \in Procs : Return(p)

SpecRegister == InitRegister /\ [][NextRegister]_vars

\* login, refresh, logout and the protected routes as time passes
NextAuth ==
  \/ \E p \in Procs : StartLogin(p)
  \/ \E p \in Procs : LoginFind(p)
  \/ \E p \in Procs : LoginToken(p)
  \/ \E p \in Procs : StartRefresh(p)
  \/ \E p \in Procs : Refresh(p)
  \/ \E p \in Procs : StartLogout(p)
  \/ \E p \in Procs : Logout(p)
  \/ \E p \in Procs : StartProtected(p)
  \/ \E p \in Procs : Authenticate(p)
  \/ \E p \in Procs : Controller(p)
  \/ \E p \in Procs : Return(p)
  \/ Tick

SpecAuth == Init /\ [][NextAuth]_vars

\* Stripe delivers events, some of them more than once
NextWebhooks ==
  \/ \E p \in Procs : StartWebhook(p)
  \/ \E p \in Procs : WebhookCheckoutCompleted(p)
  \/ \E p \in Procs : WebhookSubscriptionUpdated(p)
  \/ \E p \in Procs : WebhookSubscriptionDeleted(p)
  \/ \E p \in Procs : WebhookPaymentFailed(p)
  \/ \E p \in Procs : WebhookUnhandled(p)
  \/ \E p \in Procs : Return(p)

SpecWebhooks == Init /\ [][NextWebhooks]_vars

\* a FREE user, no upload yet, two upload requests in flight
InitUpload ==
  /\ users = [u \in {"u1"} |-> [email |-> "u1", plan |-> "FREE", stripeCustomerId |-> "", stripeSubscriptionId |-> "",
                                  subscriptionStatus |-> ""]]
  /\ fileUploads = <<>>
  /\ quizzes = <<>>
  /\ disk = <<>>
  /\ nextPath = 1
  /\ usage = <<>>
  /\ refreshTokens = {}
  /\ now = 0
  /\ events = {}
  /\ req = [p \in {"p1", "p2"} |-> Blank]

NextUpload ==
  \/ \E p \in Procs : StartUpload(p)
  \/ \E p \in Procs : UploadCheckLimit(p)
  \/ \E p \in Procs : UploadCreate(p)
  \/ \E p \in Procs : UploadExtract(p)
  \/ \E p \in Procs : UploadCatch(p)
  \/ \E p \in Procs : UploadRecordUsage(p)
  \/ \E p \in Procs : Return(p)
  \/ Tick

SpecUpload == InitUpload /\ [][NextUpload]_vars

\* a browser and the API slot that serves it
InitClient ==
  /\ InitStore
  /\ req = [p \in {"p1", "c1"} |-> IF p = API THEN Blank ELSE Browser]

NextClient ==
  \/ \E c \in Procs : ClientLogin(c)
  \/ \E c \in Procs : ClientLoggedIn(c)
  \/ \E c \in Procs : ClientRequest(c)
  \/ \E c \in Procs : ClientResponse(c)
  \/ \E c \in Procs : ClientRefreshed(c)
  \/ \E p \in Procs : LoginFind(p)
  \/ \E p \in Procs : LoginToken(p)
  \/ \E p \in Procs : Refresh(p)
  \/ \E p \in Procs : Authenticate(p)
  \/ \E p \in Procs : Controller(p)
  \/ Tick

SpecClient == InitClient /\ [][NextClient]_vars

\* ------------------------------------------------------------------ properties
\* C1 (Spec): the count generateQuiz hands to generateQuizQuestions is
\* min(requested count if given, else the plan's questionsPerQuiz; the plan's
\* questionsPerQuiz), the limit being 5 for FREE and 30 for PRO; so the list
\* generateQuiz gets back never holds more than 5 (FREE) or 30 (PRO) questions.
C1_CountHandedIsClamped ==
  /\ \A p \in Procs :
       LET r     == req[p]
           limit == IF r.plan = "FREE" THEN 5 ELSE 30
       IN  (r.op = "generateQuiz" /\ r.count # 0) =>
             /\ r.plan \in {"FREE", "PRO"}
             /\ r.count = Min(IF r.questionCount.given THEN r.questionCount.n ELSE limit, limit)
  /\ \A p \in Procs :
       (req[p].op = "generateQuiz" /\ req[p].questions # <<>>) =>
         Len(req[p].questions) <= (IF req[p].plan = "FREE" THEN 5 ELSE 30)

\* a FREE user asked for 30 questions and the generator was handed 5
C1_Witness ==
  \E p \in Procs :
    /\ req[p].op = "generateQuiz" /\ req[p].pc = "q_bulk"
    /\ req[p].plan = "FREE" /\ req[p].questionCount = Some(30) /\ req[p].count = 5

\* C2 (SpecGen): a finished generateQuizQuestions call has returned exactly
\* questionCount questions or has thrown; once the backfill loop has run, a
\* throw is the shortfall error carrying the number of questions achieved
\* and the number requested.
C2_ExactCountOrError ==
  \A p \in Procs :
    LET r == req[p]
    IN  (r.op = "generateQuizQuestions" /\ r.pc = "done") =>
          IF r.ok THEN Len(r.questions) = r.count /\ r.err = NoErr
          ELSE /\ r.err # NoErr
               /\ r.questions = <<>>
               /\ r.oneCalls > 0 =>
                    /\ r.err.message = "Could only generate"
                    /\ r.err.achieved = Len(r.validated) + Len(r.additional)
                    /\ r.err.requested = r.count
                    /\ r.err.achieved < r.err.requested

\* 3 of 5 came from the bulk call, both backfill calls failed: the error
\* names 3 and 5
C2_Witness ==
  \E p \in Procs :
    /\ req[p].op = "generateQuizQuestions" /\ req[p].pc = "done" /\ ~ req[p].ok
    /\ req[p].count = 5 /\ req[p].oneCalls = 2
    /\ req[p].err.achieved = 3 /\ req[p].err.requested = 5

C3_BackfillCount ==
  \A p \in Procs :
    LET r == req[p]
    IN  /\ (r.op = "generateQuizQuestions" /\ r.pc = "q_backfill") =>
             r.oneCalls = r.i /\ r.i < r.count - Len(r.validated)
        /\ (r.op = "generateQuizQuestions" /\ r.pc = "done"
              /\ (r.ok \/ r.err.message = "Could only generate")) =>
             r.oneCalls = Max(0, r.count - Len(r.validated))

C3_BackfillAvoidList ==
  \A p \in Procs :
    (req[p].op = "generateQuizQuestions" /\ req'[p].oneCalls = req[p].oneCalls + 1) =>
      req'[p].lastAvoid = QuestionTexts(req[p].validated) \o QuestionTexts(req[p].additional)

\* C3 (SpecGen): when the bulk response validates to k questions for a
\* request of n, generateQuizQuestions makes exactly max(0, n - k) calls of
\* generateSingleQuestion, and each is given the texts of all questions
\* accepted before it, those of earlier backfill calls included.
C3_BackfillCalls == []C3_BackfillCount /\ [][C3_BackfillAvoidList]_vars

\* the second backfill call was given the text the first one produced
C3_Witness ==
  \E p \in Procs :
    /\ req[p].op = "generateQuizQuestions" /\ req[p].oneCalls = 2
    /\ Len(req[p].validated) = 3 /\ Len(req[p].additional) >= 1
    /\ Len(req[p].lastAvoid) = 4

\* C4 (Spec): every question of every package the builder has built has its
\* correctAnswer among its options.
C4_NoDanglingAnswerBuilt ==
  \A k \in DOMAIN disk :
    \A n \in DOMAIN disk[k].questions :
      Includes(disk[k].questions[n].options, disk[k].questions[n].correctAnswer)

\* C5 (SpecGen): every question generateQuizQuestions or
\* generateSingleQuestion returns has a non-empty text, exactly 4 options and
\* a correctAnswer that is one of the options.
C5_ReturnedQuestionsWellFormed ==
  \A p \in Procs :
    (req[p].op \in {"generateQuizQuestions", "generateSingleQuestion"} /\ req[p].pc = "done" /\ req[p].ok) =>
      \A n \in DOMAIN req[p].questions :
        LET q == req[p].questions[n]
        IN  /\ ~ Falsy(q.question)
            /\ Len(q.options) = 4
            /\ Includes(q.options, q.correctAnswer)

\* checkForDuplicates of the dashboard page: two entries with the same
\* question.toLowerCase().trim()
CheckForDuplicates(questions) ==
  \E m, n \in DOMAIN questions :
    m # n /\ Trim(ToLowerCase(questions[m].question)) = Trim(ToLowerCase(questions[n].question))

\* C6 (Spec): no stored quiz record holds two questions whose trimmed texts
\* are the same up to case.
C6_NoDuplicatePersisted ==
  \A k \in DOMAIN quizzes : ~ CheckForDuplicates(quizzes[k].questions)

\* C7 (SpecGen): a generateQuizQuestions call with a count below 1 or above
\* 30 makes no LLM call and ends with a 400 error.
C7_CountOutOfRangeRejected ==
  \A p \in Procs :
    LET r == req[p]
    IN  (r.op = "generateQuizQuestions" /\ (r.count < 1 \/ r.count > 30)) =>
          /\ r.bulkCalls = 0 /\ r.oneCalls = 0
          /\ r.pc \in {"q_start", "done"}
          /\ r.pc = "done" => (~ r.ok /\ r.err.class = "AppError" /\ r.err.statusCode = 400)

\* a call with 31 was refused
C7_Witness ==
  \E p \in Procs :
    /\ req[p].op = "generateQuizQuestions" /\ req[p].pc = "done"
    /\ req[p].count = 31 /\ req[p].err.statusCode = 400 /\ req[p].bulkCalls = 0

\* the three conditions a caller can tell apart
Saturated(e) == e.class = "AppError" /\ e.statusCode = 429

Misconfigured(e) == e.class = "AppError" /\ e.message = "OpenAI API authentication failed"

\* C8 (SpecGen): a request whose LLM call failed with 429 ends with the
\* saturated condition, one whose call failed with 401 with the
\* misconfigured condition, any other failure with neither.
C8_FailuresClassified ==
  \A p \in Procs :
    LET r == req[p]
    IN  (r.pc = "done" /\ r.lastFailure # 200) =>
          /\ ~ r.ok
          /\ r.lastFailure = 429 => Saturated(r.err)
          /\ r.lastFailure = 401 => Misconfigured(r.err)
          /\ r.lastFailure \notin {429, 401} => (~ Saturated(r.err) /\ ~ Misconfigured(r.err))

C10_WatermarkOfCurrentPlan ==
  \A k \in DOMAIN disk :
    /\ disk[k].plan \in {"FREE", "PRO"}
    /\ disk[k].hasWatermark = (disk[k].plan = "FREE")

\* a quiz generated under FREE was rebuilt without watermark after the
\* upgrade to PRO
C10_Witness ==
  \E k \in DOMAIN disk :
    /\ disk[k].by = "updateQuizQuestions" /\ ~ disk[k].hasWatermark
    /\ \E q \in DOMAIN quizzes : quizzes[q].hasWatermark /\ quizzes[q].qtiFilePath = k

\* the positions of an updateQuizQuestions request
UpdatePcs == {"u_quiz", "u_user", "u_unlink", "u_build", "u_write", "done"}

C11_NoLLMCall ==
  \A p \in Procs :
    req[p].op = "updateQuizQuestions" =>
      /\ req[p].bulkCalls = 0 /\ req[p].oneCalls = 0
      /\ req[p].pc \in UpdatePcs

C11_UpdateStep ==
  \A p \in Procs :
    LET r == req[p]
    IN  (r.op = "updateQuizQuestions" /\ req'[p] # r) =>
          /\ UNCHANGED <<users, fileUploads, usage, refreshTokens>>
          /\ disk' # disk =>
               \/ r.pc = "u_unlink" /\ DOMAIN disk' = DOMAIN disk \ {r.oldPath}
                    /\ \A k \in DOMAIN disk' : disk'[k] = disk[k]
               \/ r.pc = "u_build" /\ DOMAIN disk' = DOMAIN disk \cup {nextPath} /\ nextPath \notin DOMAIN disk
                    /\ \A k \in DOMAIN disk : disk'[k] = disk[k]
          /\ quizzes' # quizzes =>
               /\ r.pc = "u_write"
               /\ DOMAIN quizzes' = DOMAIN quizzes
               /\ \A k \in DOMAIN quizzes : k # r.targetId => quizzes'[k] = quizzes[k]
               /\ quizzes'[r.targetId] = [quizzes[r.targetId] EXCEPT !.questions = r.body,
                                            !.questionCount = Len(r.body), !.qtiFilePath = req'[p].path]

\* C11 (Spec): an updateQuizQuestions request makes no LLM call; its steps
\* change nothing but the package files, by one removal of the old file and
\* one new file, and the quiz record it was called for, by one update.
C11_UpdateOnlyRebuilds == []C11_NoLLMCall /\ [][C11_UpdateStep]_vars

\* an update that removed the old file, built the new one and stored the
\* record, without an LLM call
C11_Witness ==
  \E p \in Procs :
    /\ req[p].op = "updateQuizQuestions" /\ req[p].pc = "done" /\ req[p].ok
    /\ req[p].removed /\ req[p].path \in DOMAIN disk
    /\ quizzes[req[p].targetId].qtiFilePath = req[p].path
    /\ req[p].bulkCalls = 0 /\ req[p].oneCalls = 0

\* errorHandler: the response body a thrown error comes to; an AppError is
\* operational and shows its own status and message, anything else is a 500
\* with a fixed message
ErrorResponse(e) ==
  IF e.class = "AppError"
  THEN [statusCode |-> e.statusCode, message |-> e.message]
  ELSE [statusCode |-> 500, message |-> "Something went wrong"]

\* a generateQuiz request that failed inside generateQuizQuestions or inside
\* the package builder: the count was settled and no package path was returned
FailedInGeneratorOrBuilder(r) ==
  r.op = "generateQuiz" /\ r.pc = "done" /\ ~ r.ok /\ r.count # 0 /\ r.path = 0

\* the one condition a failed generation is to be reported as
QuizGenerationFailed(response) == response.message = "Quiz generation failed"

\* C12 (Spec): a generateQuiz request that failed in the question generator
\* or in the package builder answers with the one 'quiz generation failed'
\* condition; a failure of a later step is a persistence error and answers as
\* it is.
C12_GenerationErrorsWrapped ==
  \A p \in Procs :
    LET r == req[p]
    IN  /\ FailedInGeneratorOrBuilder(r) => QuizGenerationFailed(ErrorResponse(r.err))
        /\ (r.op = "generateQuiz" /\ r.pc = "done" /\ ~ r.ok /\ r.path # 0) =>
             ~ QuizGenerationFailed(ErrorResponse(r.err))

\* both slots hold an updateQuizQuestions call for the same quiz that has
\* returned its result
BothUpdatesDone ==
  /\ \A p \in Procs : req[p].op = "updateQuizQuestions" /\ req[p].pc = "done" /\ req[p].ok
  /\ \A p, q \in Procs : req[p].targetId = req[q].targetId

LLMCalls(r) == r.bulkCalls + r.oneCalls

C14_CallsBounded ==
  \A p \in Procs :
    LET r == req[p]
    IN  r.op = "generateQuizQuestions" =>
          /\ r.bulkCalls <= 1
          /\ r.oneCalls <= Max(0, r.count - Len(r.validated))
          /\ LLMCalls(r) <= 1 + r.count

\* a failed LLM call is not made again: a failed bulk call ends the request
\* with its error, a failed backfill call uses up its turn of the loop
C14_NoRetry ==
  \A p \in Procs :
    LET r == req[p]
        after == req'[p]
    IN  (r.op = "generateQuizQuestions" /\ LLMCalls(after) = LLMCalls(r) + 1) =>
          /\ (r.pc = "q_bulk" /\ after.lastFailure # 200) => (after.pc = "done" /\ ~ after.ok)
          /\ (r.pc = "q_backfill" /\ after.additional = r.additional) =>
               (after.pc = "done" \/ after.i = r.i + 1)

C14_Terminates ==
  \A p \in {"p1"} :
    (req[p].op = "generateQuizQuestions" /\ req[p].pc = "q_start") ~> (req[p].pc = "done")

\* C14 (SpecGenFair): generateQuizQuestions always terminates and makes a
\* bounded number of LLM calls: at most one bulk call, at most one
\* generateSingleQuestion call per question still missing after the bulk
\* call, no failed call made again, so at most 1 + count calls in all.
C14_TerminatesWithBoundedCalls == []C14_CallsBounded /\ [][C14_NoRetry]_vars /\ C14_Terminates

\* a request of 5 ended after its one bulk call and two backfill calls, the
\* last of which failed
C14_Witness ==
  \E p \in Procs :
    /\ req[p].op = "generateQuizQuestions" /\ req[p].pc = "done" /\ req[p].count = 5
    /\ req[p].bulkCalls = 1 /\ req[p].oneCalls = 2 /\ req[p].lastFailure # 200

\* the characters [a-z0-9_-] of the model's alphabet
IsSafeChar(c) == c \in {"a", "b", "c", "d", "q", "x", "y", "z", "0", "1", "_", "-"}

\* C15 (Spec): the filename generateQuiz and updateQuizQuestions hand to the
\* package builder consists only of the characters [a-z0-9_-], also when the
\* caller supplied a filename of its own.
C15_FilenameSanitized ==
  \A p \in Procs :
    req[p].pc \in {"g_build", "u_build"} =>
      \A k \in DOMAIN FilenameFor(req[p]) : IsSafeChar(FilenameFor(req[p])[k])

\* the request names a quiz or an upload that exists and belongs to a user
\* other than the caller
ForeignTarget(r) ==
  \/ /\ r.op \in {"getQuizById", "updateQuizQuestions", "deleteQuiz"}
     /\ r.targetId \in DOMAIN quizzes
     /\ quizzes[r.targetId].userId # r.userId
  \/ /\ r.op \in {"generateQuiz", "generateSingleQuestion"}
     /\ r.targetId \in DOMAIN fileUploads
     /\ fileUploads[r.targetId].userId # r.userId

\* where a request stands up to and including its ownership lookup
LookupPcs == {"v_quiz", "u_quiz", "d_quiz", "g_user", "g_file", "r_file"}

\* the not-found answers of the two lookups
NotFound == {AppError(404, "Quiz not found"), AppError(404, "File not found")}

C16_ForeignNeverServed ==
  \A p \in Procs :
    ForeignTarget(req[p]) =>
      /\ req[p].pc \in LookupPcs \cup {"done"}
      /\ req[p].pc = "done" => ~ req[p].ok

C16_ForeignStep ==
  \A p \in Procs :
    ForeignTarget(req[p]) =>
      /\ store' = store
      /\ req[p].pc \in LookupPcs \ {"g_user"} =>
           req'[p].pc = "done" /\ ~ req'[p].ok /\ req'[p].err \in NotFound

\* C16 (SpecOwners): for a quiz or an upload owned by someone else,
\* getQuizById, updateQuizQuestions, deleteQuiz, generateQuiz and
\* generateSingleQuestion fail with not-found, and no step of such a call
\* changes a record or a file.
C16_ForeignIsNotFound == []C16_ForeignNeverServed /\ [][C16_ForeignStep]_vars

\* u2 asked to delete the quiz u1 generated: not found, and the quiz and its
\* package are still there
C16_Witness ==
  \E p \in Procs :
    /\ req[p].op = "deleteQuiz" /\ req[p].userId = "u2" /\ req[p].pc = "done"
    /\ req[p].err = AppError(404, "Quiz not found")
    /\ 1 \in DOMAIN quizzes /\ quizzes[1].userId = "u1" /\ quizzes[1].qtiFilePath \in DOMAIN disk

\* the users registered under an email
UsersWithEmail(email) == {u \in DOMAIN users : users[u].email = email}

\* C17 (SpecRegister): of the registerUser calls for one email, in sequence
\* or in flight together, exactly one creates the user and every other one
\* fails with 'User already exists', creating no user and no refresh token.
C17_OneRegistrationOthersConflict ==
  /\ \A email \in Emails : Cardinality(UsersWithEmail(email)) <= 1
  /\ \A row \in refreshTokens : row.userId \in DOMAIN users
  /\ Cardinality(refreshTokens) <= Cardinality(DOMAIN users) - 1
  /\ \A p \in Procs :
       (req[p].op = "registerUser" /\ req[p].pc = "done" /\ ~ req[p].ok) =>
         req[p].err = AppError(409, "User already exists")

\* authenticate turned the request away: it carried no bearer token, or one
\* that is malformed, wrongly signed or expired
TurnedAway(r) == r.op = "protected" /\ r.pc = "done" /\ r.err # NoErr

\* C18 (SpecAuth): every request to a protected route that carries no bearer
\* token, a malformed or invalid one, or an expired one is answered with
\* HTTP 401, and the controller is never executed for it.
C18_Unauthenticated401 ==
  \A p \in Procs :
    /\ TurnedAway(req[p]) => (req[p].status = 401 /\ ~ req[p].ran)
    /\ (req[p].op = "protected" /\ req[p].ran) => req[p].err = NoErr

\* a refreshAccessToken call that has returned, for a refresh token the
\* server signed and whose logoutUser call had completed before it began
RefreshedAfterLogout(r) ==
  /\ r.op = "refreshAccessToken" /\ r.pc = "done"
  /\ r.token.kind = "refresh" /\ LoggedOut(r.token) \in events

\* C19 (SpecAuth): once logoutUser(t) has completed, every later
\* refreshAccessToken(t) fails with 401 and issues no access token.
C19_NoRefreshAfterLogout ==
  \A p \in Procs :
    RefreshedAfterLogout(req[p]) =>
      ~ req[p].ok /\ ErrorResponse(req[p].err).statusCode = 401

\* the event of slot p is the one processed last, and that processing wrote
\* its update
Redelivered(p) ==
  /\ req[p].op = "handleWebhookEvent" /\ req[p].pc = "w_handle"
  /\ [event |-> req[p].event, applied |-> TRUE] \in events

\* C20 (SpecWebhooks): processing a verified Stripe event a second time
\* leaves plan, subscriptionStatus and the Stripe ids of the user as the
\* first processing left them.
C20_RedeliveryIsNoOp == [][\A p \in Procs : Redelivered(p) => users' = users]_vars

\* processFileUpload has created its record and has returned or thrown
ProcessingOver(r) ==
  /\ r.op = "uploadFile"
  /\ r.pc \in {"f_usage", "done"}
  /\ r.targetId \in UploadIds

\* C21 (SpecUpload): an extracted text that trims to fewer than 100
\* characters makes processFileUpload fail with the 'content too short'
\* error; and once processFileUpload has returned or thrown, the upload
\* record is COMPLETED with a stored text of at least 100 trimmed characters
\* or FAILED with no stored text, never still PROCESSING.
C21_UploadSettled ==
  \A p \in Procs :
    ProcessingOver(req[p]) =>
      LET row == fileUploads[req[p].targetId]
      IN  \/ row.status = "COMPLETED" /\ TrimLength(row.extractedText) >= MinTextLength
          \/ row.status = "FAILED" /\ row.extractedText = NoText

\* the successful uploads of a user
UploadsOf(userId) == { e \in events : e.what = "uploaded" /\ e.userId = userId }

\* C22 (SpecUpload): a FREE user never completes more than one successful
\* upload within a rolling 7-day window, upload requests in flight at the
\* same time included.
C22_OneUploadPerWeek ==
  \A u \in DOMAIN users :
    users[u].plan = "FREE" =>
      \A a \in UploadsOf(u), b \in UploadsOf(u) :
        a.id # b.id => (a.at - b.at > WeekTicks \/ b.at - a.at > WeekTicks)

\* the refresh token in the browser's localStorage is one the server
\* would accept
HoldsValidRefreshToken(r) ==
  /\ r.op = "client"
  /\ Verify(r.refreshToken, "refresh") = "ok"
  /\ \E row \in refreshTokens : row.token = r.refreshToken /\ row.expiresAt >= now

\* C23 (SpecClient): a client whose access token has expired and which
\* still holds a valid refresh token is not logged out by an API request:
\* the refresh token is used and the request carried out; the tokens are
\* dropped only when the refresh itself fails.
C23_ExpiredAccessIsRefreshed ==
  [][\A c \in Procs : HoldsValidRefreshToken(req[c]) => req'[c].refreshToken # NoToken]_vars

\* the steps of generateQuiz, updateQuizQuestions and generateSingleQuestion
\* that quiz.service takes itself
ServicePcs ==
  {"g_user", "g_file", "g_build", "g_create", "g_usage1", "g_usage2",
   "u_quiz", "u_user", "u_unlink", "u_build", "u_write", "r_file"}

\* the request of slot p has ended with an error for its caller
Failed(r) == r.pc = "done" /\ ~ r.ok /\ r.err # NoErr

\* C24 (SpecOwners): in updateQuizQuestions the unlink of the old package
\* never ends the call, whether it failed or not: the build is next. At every
\* other step of generateQuiz, updateQuizQuestions and generateSingleQuestion
\* in quiz.service a write that did not happen (the store is as it was) ends
\* the call with the error; a read either hands on or ends the call with its
\* error.
C24_Step ==
  \A p \in Procs :
    (req[p].pc \in ServicePcs /\ req'[p] # req[p]) =>
      IF req[p].pc = "u_unlink"
      THEN req'[p].pc = "u_build" /\ req'[p].err = NoErr
      ELSE IF req[p].pc \in {"g_build", "g_create", "g_usage1", "g_usage2", "u_build", "u_write"}
      THEN (<<quizzes, disk, nextPath, usage>>' = <<quizzes, disk, nextPath, usage>>) <=> Failed(req'[p])
      ELSE Failed(req'[p]) \/ (req'[p].pc \notin {"done", req[p].pc} /\ req'[p].err = NoErr)

C24_OnlyUnlinkSwallowed == [][C24_Step]_vars

\* an update has succeeded although its unlink failed: the old file is
\* still on disk, the record references the new one
C24_Witness ==
  \E p \in Procs :
    LET r == req[p]
    IN  /\ r.op = "updateQuizQuestions" /\ r.pc = "done" /\ r.ok
        /\ ~ r.removed
        /\ r.oldPath \in DOMAIN disk
        /\ quizzes[r.targetId].qtiFilePath = r.path
        /\ r.path # r.oldPath

\* the package files on disk that the record of quiz id does not reference
Orphans(id) == { k \in DOMAIN disk : id \notin DOMAIN quizzes \/ quizzes[id].qtiFilePath # k }

\* an updateQuizQuestions call that unlinked the old package has ended and
\* no other request is in flight
UpdatedAfterRemoval(p) ==
  /\ req[p].op = "updateQuizQuestions"
  /\ req[p].pc = "done"
  /\ req[p].removed
  /\ \A q \in Procs \ {p} : req[q].pc = "idle"

\* C25 (SpecRace): after an updateQuizQuestions call whose deletion of the
\* previous package succeeded, the only package file on disk for the quiz
\* is the one its record references.
C25_NoOrphanAfterRemoval ==
  \A p \in Procs : UpdatedAfterRemoval(p) => Orphans(req[p].targetId) = {}

\* an entry without question text, options or correct answer, or with an
\* option count other than 4
Malformed(q) ==
  \/ Falsy(q.question)
  \/ q.options = NullOptions
  \/ Falsy(q.correctAnswer)
  \/ Len(q.options) # 4

\* C26 (SpecGen): when the bulk response holds a malformed entry,
\* generateQuizQuestions makes no further call, returns nothing and ends
\* with the validation error; the part of a returned list that came from
\* the bulk response holds, entry by entry, the trimmed entries of a response
\* none of which is malformed.
C26_MalformedEntryRaises ==
  \A p \in Procs :
    LET r == req[p]
    IN  r.op = "generateQuizQuestions" =>
          /\ (\E k \in DOMAIN r.response : Malformed(r.response[k])) =>
               /\ r.pc = "done" /\ ~ r.ok
               /\ r.err.class = "AppError" /\ r.err.statusCode = 500
               /\ r.err.message \in {"Invalid question format at index", "Question must have exactly 4 options"}
               /\ r.validated = <<>> /\ r.questions = <<>> /\ r.oneCalls = 0
          /\ (r.pc = "done" /\ r.ok) =>
               \A n \in DOMAIN r.questions :
                 n <= Len(r.response) =>
                   /\ ~ Malformed(r.response[n])
                   /\ r.questions[n] = TrimEntry(r.response[n])

\* a bulk response whose second entry has three options was refused
C26_Witness ==
  \E p \in Procs :
    LET r == req[p]
    IN  /\ r.op = "generateQuizQuestions" /\ r.pc = "done" /\ ~ r.ok
        /\ Len(r.response) = 2
        /\ ~ Malformed(r.response[1])
        /\ Len(r.response[2].options) = 3
        /\ r.err.message = "Question must have exactly 4 options"

\* C27 (SpecRace): after an updateQuizQuestions call that failed, the
\* package file the quiz record references is on disk (the record itself is
\* written by the last step only, so a failed call leaves it as it was).
C27_FailedUpdateKeepsPackage ==
  \A p \in Procs :
    LET r == req[p]
    IN  ( /\ r.op = "updateQuizQuestions" /\ r.pc = "done" /\ ~ r.ok
          /\ r.targetId \in DOMAIN quizzes
          /\ \A q \in Procs \ {p} : req[q].pc = "idle" ) =>
          quizzes[r.targetId].qtiFilePath \in DOMAIN disk

\* the usage rows of an action
UsageOf(action) == { k \in DOMAIN usage : usage[k].action = action }

\* C28 (Spec): after a generateQuiz call that failed, the package file it
\* wrote, if any, is not on disk, no quiz record references it, and no usage
\* row of the call is left (every QUIZ_GENERATION row has its QTI_EXPORT row).
C28_FailedGenerateLeavesNothing ==
  \A p \in Procs :
    LET r == req[p]
    IN  (r.op = "generateQuiz" /\ r.pc = "done" /\ ~ r.ok) =>
          /\ r.path \notin DOMAIN disk
          /\ \A k \in DOMAIN quizzes : r.path = 0 \/ quizzes[k].qtiFilePath # r.path
          /\ Cardinality(UsageOf("QUIZ_GENERATION")) = Cardinality(UsageOf("QTI_EXPORT"))

\* C29 (Spec): the hasWatermark and plan fields of every quiz record agree
\* with the flag and the plan with which the package file the record
\* references was built.
C29_RecordAgreesWithPackage ==
  \A k \in DOMAIN quizzes :
    LET path == quizzes[k].qtiFilePath
    IN  path \in DOMAIN disk =>
          /\ disk[path].hasWatermark = quizzes[k].hasWatermark
          /\ disk[path].plan = quizzes[k].plan

\* the step is the processing of a checkout.session.completed event of
\* user u
CheckoutProcessedFor(u) ==
  \E p \in Procs :
    /\ req[p].pc = "w_handle"
    /\ req[p].event.type = "checkout.session.completed"
    /\ req[p].event.userId = u
    /\ req'[p].pc = "done"

\* C30 (SpecWebhooks): a user whom a customer.subscription.deleted event
\* has put on FREE (plan FREE, status canceled) leaves FREE only by the
\* processing of a checkout.session.completed event for that user.
C30_FreeUntilCheckout ==
  [][\A u \in DOMAIN users :
       (users[u].plan = "FREE" /\ users[u].subscriptionStatus = "canceled" /\ users'[u].plan # "FREE")
         => CheckoutProcessedFor(u)]_vars

====
